---- MODULE Spec2Model ----
(***************************************************************************)
(* Invoice dashboard: the invoice verification screen (InvoiceVerification *)
(* with handleSave / handleVerify / handleSendToAccountant), the           *)
(* line-item parser (parseLineItems) and the organization context          *)
(* (OrganizationProvider with refreshOrganizations / switchOrganization).  *)
(***************************************************************************)
EXTENDS Integers, Sequences, FiniteSets, TLC

VARIABLES
    \* ---- table "invoices" of the backend
    invoices,       \* [InvoiceIds -> row]
    \* ---- one mounted InvoiceVerification component per browser session
    invoice,        \* the `invoice` prop: [id, row] as last rendered by the server
    formData,       \* useState formData
    isEditing,      \* useState isEditing
    isSaving,       \* useState isSaving
    request,        \* the remote write awaited by the running handler
    lastAlert,      \* text of the alert() raised by the last handler, "" if none
    completed,      \* the handler whose write last succeeded ("" if none since the last click)
    writes,         \* number of remote writes issued so far
    edits,          \* number of handleInputChange calls so far
    \* ---- a call of parseLineItems
    lineItems,      \* its argument
    parsed,         \* its result
    parsePc,        \* "call" before it ran, "returned" after, "idle" when not in use
    \* ---- backend rows of the signed-in user
    memberships,    \* organization_members joined with organizations, in row order
    profile,        \* profiles.current_organization_id ("" for null)
    \* ---- OrganizationProvider
    currentOrganization,
    organizations,
    isLoading,
    refresh,        \* the running refreshOrganizations calls
    switch,         \* the running switchOrganization calls
    \* ---- table "organization_members" as the members page sees it
    memberRows,     \* the stored membership rows
    \* ---- TeamMembersPage
    members,        \* useState members
    loading,        \* useState loading
    toast,          \* text of the last toast, "" if none
    loads,          \* the running loadMembers calls
    removal,        \* the running handleRemoveMember call
    reloadSeen,     \* the currentOrganization?.id the reload effect last ran for
    \* ---- table "organizations" of the backend
    orgRows,        \* [OrgIds -> the columns of the row]
    \* ---- SettingsPage
    settingsForm,   \* useState formData
    effectSeen,     \* the currentOrganization the load effect last ran for
    settingsLoading,\* useState loading
    uploadingLogo,  \* useState uploadingLogo
    settingsToast,  \* text of the last toast of the page, "" if none
    fileInput,      \* the file held by the file input
    submit,         \* the running handleSubmit call
    logoCall,       \* the running handleLogoUpload or handleRemoveLogo call
    \* ---- the invite dialog of TeamMembersPage
    inviteModal,    \* showInviteModal, inviteEmail, inviteName, invitePhone, inviteRole, inviting
    \* ---- table "profiles" of the backend and the browser's location
    profileRows,    \* the ids of the users that have a profile row
    route,          \* the page the router shows
    \* ---- RegisterPage and LoginPage
    registerPage,   \* password, confirmPassword, error, loading and the running handleRegister
    loginPage       \* error, loading and the running handleLogin

screenVars == <<invoices, invoice, formData, isEditing, isSaving, request, lastAlert,
                completed, writes, edits>>
parseVars == <<lineItems, parsed, parsePc>>
tenantVars == <<memberships, profile, currentOrganization, organizations, isLoading,
                refresh, switch>>
memberVars == <<memberRows, members, loading, toast, loads, removal, reloadSeen>>
settingsVars == <<orgRows, settingsForm, effectSeen, settingsLoading, uploadingLogo,
                  settingsToast, fileInput, submit, logoCall>>
inviteVars == <<inviteModal>>
authVars == <<profileRows, route, registerPage, loginPage>>
vars == <<screenVars, parseVars, tenantVars, memberVars, settingsVars, inviteVars, authVars>>

\* what the actions of one component leave alone
outsideScreen == <<parseVars, tenantVars, memberVars, settingsVars, inviteVars, authVars>>
outsideParse == <<screenVars, tenantVars, memberVars, settingsVars, inviteVars, authVars>>
outsideTenant == <<screenVars, parseVars, memberVars, settingsVars, inviteVars, authVars>>
outsideMembers == <<screenVars, parseVars, settingsVars, inviteVars, authVars>>
outsideSettings == <<screenVars, parseVars, memberVars, inviteVars, authVars>>
outsideInvite == <<screenVars, parseVars, tenantVars, settingsVars, authVars>>
outsideAuth == <<screenVars, parseVars, tenantVars, memberVars, settingsVars, inviteVars>>

----------------------------------------------------------------------------
(* Bounds of the model *)

MaxWrites == 3
MaxEdits == 1

----------------------------------------------------------------------------
(* JavaScript values: null, undefined, NaN, booleans, numbers, strings,     *)
(* arrays and objects.  A string is the sequence of its characters (of its  *)
(* lexical tokens, for a JSON text); an object is the sequence of its       *)
(* members, each a key with one value.                                      *)

Null == [t |-> "null", n |-> 0, s |-> <<>>, items |-> <<>>]
Undefined == [t |-> "undefined", n |-> 0, s |-> <<>>, items |-> <<>>]
NaN == [t |-> "nan", n |-> 0, s |-> <<>>, items |-> <<>>]
Bool(b) == [t |-> "bool", n |-> IF b THEN 1 ELSE 0, s |-> <<>>, items |-> <<>>]
Num(n) == [t |-> "num", n |-> n, s |-> <<>>, items |-> <<>>]
Str(s) == [t |-> "str", n |-> 0, s |-> s, items |-> <<>>]
Arr(items) == [t |-> "arr", n |-> 0, s |-> <<>>, items |-> items]
Member(key, v) == [t |-> "member", n |-> 0, s |-> key, items |-> <<v>>]
Obj(pairs) == [t |-> "obj", n |-> 0, s |-> <<>>, items |-> pairs]

\* ToBoolean(v) is false
Falsy(v) ==
    \/ v.t \in {"null", "undefined", "nan"}
    \/ v.t \in {"num", "bool"} /\ v.n = 0
    \/ v.t = "str" /\ v.s = <<>>

\* v || d
OrElse(v, d) == IF Falsy(v) THEN d ELSE v

Digits == {"0", "1", "2", "3", "4", "5", "6", "7", "8", "9"}

DigitValue(c) ==
    CASE c = "0" -> 0 [] c = "1" -> 1 [] c = "2" -> 2 [] c = "3" -> 3
      [] c = "4" -> 4 [] c = "5" -> 5 [] c = "6" -> 6 [] c = "7" -> 7
      [] c = "8" -> 8 [] c = "9" -> 9

RECURSIVE TrimLeft(_)
TrimLeft(s) ==
    IF s # <<>> /\ Head(s) = " " THEN TrimLeft(Tail(s)) ELSE s

RECURSIVE TrimRight(_)
TrimRight(s) ==
    IF s # <<>> /\ s[Len(s)] = " " THEN TrimRight(SubSeq(s, 1, Len(s) - 1)) ELSE s

RECURSIVE DecimalValue(_)
DecimalValue(s) ==
    IF s = <<>> THEN 0
    ELSE 10 * DecimalValue(SubSeq(s, 1, Len(s) - 1)) + DigitValue(s[Len(s)])

\* Number("...") on strings over digits, blanks and letters: blanks are
\* trimmed, the empty string is 0, a digit string is its decimal value and
\* anything else is NaN.
StringToNumber(s) ==
    LET t == TrimRight(TrimLeft(s))
    IN  IF t = <<>> THEN Num(0)
        ELSE IF \A i \in 1..Len(t) : t[i] \in Digits THEN Num(DecimalValue(t))
        ELSE NaN

\* Number(v)
Number(v) ==
    CASE v.t = "num" -> v
      [] v.t = "nan" -> NaN
      [] v.t = "null" -> Num(0)
      [] v.t = "undefined" -> NaN
      [] v.t = "bool" -> Num(v.n)
      [] v.t = "str" -> StringToNumber(v.s)
      [] OTHER -> NaN

\* The value a column receives from a JSON request body: NaN is sent as null.
JSONValue(v) == IF v.t \in {"nan", "undefined"} THEN Null ELSE v

----------------------------------------------------------------------------
(* JSON.parse and parseLineItems.  A JSON text is the sequence of its       *)
(* tokens: the six punctuators, a numeral and string literals.              *)

Punctuators == {"[", "]", "{", "}", ",", ":"}
StringLiterals == {"\"A\"", "\"description\"", "\"amount\""}
Numerals == {"10"}

\* the characters between the quotes of a string literal
LiteralText(tok) ==
    CASE tok = "\"A\"" -> <<"A">>
      [] tok = "\"description\"" ->
            <<"d", "e", "s", "c", "r", "i", "p", "t", "i", "o", "n">>
      [] tok = "\"amount\"" -> <<"a", "m", "o", "u", "n", "t">>

\* the digits of a numeral
NumeralText(tok) ==
    CASE tok = "10" -> <<"1", "0">>

NumeralValue(tok) == DecimalValue(NumeralText(tok))

ParseFailure == [ok |-> FALSE, val |-> Null, rest |-> <<>>]
Parsed(v, rest) == [ok |-> TRUE, val |-> v, rest |-> rest]

\* a member is added to an object: a repeated key keeps its place and takes
\* the later value
AddMember(pairs, key, v) ==
    IF \E i \in 1..Len(pairs) : pairs[i].s = key
    THEN [i \in 1..Len(pairs) |->
             IF pairs[i].s = key THEN Member(key, v) ELSE pairs[i]]
    ELSE Append(pairs, Member(key, v))

RECURSIVE ParseValue(_)
RECURSIVE ParseElements(_, _)
RECURSIVE ParseMembers(_, _)

\* value := numeral | string | [ ] | [ elements ] | { } | { members }
ParseValue(toks) ==
    IF toks = <<>> THEN ParseFailure
    ELSE IF Head(toks) \in Numerals
         THEN Parsed(Num(NumeralValue(Head(toks))), Tail(toks))
    ELSE IF Head(toks) \in StringLiterals
         THEN Parsed(Str(LiteralText(Head(toks))), Tail(toks))
    ELSE IF Head(toks) = "["
         THEN IF Len(toks) >= 2 /\ toks[2] = "]"
              THEN Parsed(Arr(<<>>), Tail(Tail(toks)))
              ELSE ParseElements(Tail(toks), <<>>)
    ELSE IF Head(toks) = "{"
         THEN IF Len(toks) >= 2 /\ toks[2] = "}"
              THEN Parsed(Obj(<<>>), Tail(Tail(toks)))
              ELSE ParseMembers(Tail(toks), <<>>)
    ELSE ParseFailure

\* elements := value ( , value )* ]
ParseElements(toks, acc) ==
    LET r == ParseValue(toks)
    IN  IF ~r.ok \/ r.rest = <<>> THEN ParseFailure
        ELSE IF Head(r.rest) = ","
             THEN ParseElements(Tail(r.rest), Append(acc, r.val))
        ELSE IF Head(r.rest) = "]"
             THEN Parsed(Arr(Append(acc, r.val)), Tail(r.rest))
        ELSE ParseFailure

\* members := string : value ( , string : value )* }
ParseMembers(toks, acc) ==
    IF Len(toks) < 3 \/ toks[1] \notin StringLiterals \/ toks[2] # ":"
    THEN ParseFailure
    ELSE LET r == ParseValue(SubSeq(toks, 3, Len(toks)))
             m == AddMember(acc, LiteralText(toks[1]), r.val)
         IN  IF ~r.ok \/ r.rest = <<>> THEN ParseFailure
             ELSE IF Head(r.rest) = "," THEN ParseMembers(Tail(r.rest), m)
             ELSE IF Head(r.rest) = "}" THEN Parsed(Obj(m), Tail(r.rest))
             ELSE ParseFailure

\* JSON.parse(text): ok is FALSE where it throws SyntaxError
JSONParse(toks) ==
    LET r == ParseValue(toks)
    IN  IF r.ok /\ r.rest = <<>> THEN r ELSE ParseFailure

\* (mutant) the parsed value is returned without the Array.isArray test
parseLineItemsKeepsAnyJSON(v) ==
    IF Falsy(v) THEN Arr(<<>>)
    ELSE IF v.t = "arr" THEN v
    ELSE IF v.t = "str"
         THEN LET r == JSONParse(v.s)
              IN  IF r.ok THEN r.val ELSE Arr(<<>>)
    ELSE Arr(<<>>)

parseLineItems(v) ==
    IF Falsy(v) THEN Arr(<<>>)
    ELSE IF v.t = "arr" THEN v
    ELSE IF v.t = "str"
         THEN LET r == JSONParse(v.s)
              IN  IF r.ok /\ r.val.t = "arr" THEN r.val ELSE Arr(<<>>)
    ELSE Arr(<<>>)

----------------------------------------------------------------------------
(* Invoice rows *)

InvoiceIds == {"i1", "i2"}
Users == {"u1", "u2"}

InvoiceStatus == {"pending", "processed", "verified", "sent_to_accountant", "error"}

\* names Object.prototype gives every object literal
ObjectPrototypeKeys == {"constructor"}

NullStatus == "<null>"

\* what the status column of a row may hold
StoredStatus == InvoiceStatus \cup ObjectPrototypeKeys \cup {"archived", "", NullStatus}

TextFields == {"invoice_number", "invoice_date", "vendor_name", "vendor_address",
               "vendor_tax_id", "vendor_pdv", "buyer_name", "buyer_address",
               "buyer_tax_id", "notes"}
NumericFields == {"subtotal", "tax_amount", "total_amount"}
EditableFields == TextFields \cup NumericFields \cup {"currency"}

EUR == <<"E", "U", "R">>
Currencies == {EUR, <<"B", "A", "M">>, <<"R", "S", "D">>, <<"H", "R", "K">>,
               <<"U", "S", "D">>}


\* Rows the upload/extraction pipeline leaves behind: one with every field
\* extracted, one with nothing extracted.
FilledFields ==
    [f \in EditableFields |->
        IF f \in NumericFields THEN Num(10)
        ELSE IF f = "currency" THEN Str(EUR)
        ELSE Str(<<"A">>)]

EmptyFields ==
    [f \in EditableFields |->
        IF f = "currency" THEN Str(EUR) ELSE Null]

InitialFields == {FilledFields, EmptyFields}

\* what the users type into the inputs of the form (e.target.value): a
\* text, an amount (a numeral, nothing, a non-numeral) and a currency of
\* the select
InputFields == {"buyer_name", "subtotal", "currency"}

InputsOf(field) ==
    IF field \in NumericFields THEN {Str(<<"2", "5">>), Str(<<>>), Str(<<"a">>)}
    ELSE IF field = "currency" THEN {Str(<<"B", "A", "M">>)}
    ELSE {Str(<<"B">>)}

----------------------------------------------------------------------------
(* Remote writes to table "invoices": .update(patch).eq('id', id) *)

NoFields == [f \in EditableFields |-> Undefined]

NoRequest == [kind |-> "none", id |-> "", cols |-> {}, status |-> "", fields |-> NoFields]

\* one row after update(patch): the columns the patch names are overwritten
ApplyPatch(row, patch) ==
    [status |-> IF "status" \in patch.cols THEN patch.status ELSE row.status,
     fields |-> [f \in EditableFields |->
                    IF f \in patch.cols THEN JSONValue(patch.fields[f])
                    ELSE row.fields[f]],
     line_items |-> row.line_items,
     file_url |-> row.file_url]

\* (mutant) update(patch) without the .eq('id', id) filter
UpdateEveryRow(table, patch, id) ==
    [i \in InvoiceIds |-> ApplyPatch(table[i], patch)]

\* the table after update(patch).eq('id', id)
UpdateEqId(table, patch, id) ==
    [i \in InvoiceIds |-> IF i = id THEN ApplyPatch(table[i], patch) ELSE table[i]]

----------------------------------------------------------------------------
(* InvoiceVerification: derived values of a render *)

statusConfig ==
    [st \in InvoiceStatus |->
        CASE st = "pending" ->
               [label |-> "Na cekanju", color |-> "text-yellow-400",
                bgColor |-> "bg-yellow-500/20"]
          [] st = "processed" ->
               [label |-> "Obradeno - ceka provjeru", color |-> "text-blue-400",
                bgColor |-> "bg-blue-500/20"]
          [] st = "verified" ->
               [label |-> "Provjereno", color |-> "text-lime-400",
                bgColor |-> "bg-lime-500/20"]
          [] st = "sent_to_accountant" ->
               [label |-> "Poslano racunovodji", color |-> "text-purple-400",
                bgColor |-> "bg-purple-500/20"]
          [] st = "error" ->
               [label |-> "Greska", color |-> "text-red-400",
                bgColor |-> "bg-red-500/20"]]

\* a member every object inherits (a function or Object.prototype itself):
\* truthy, and reading .label, .color or .bgColor of it gives undefined
InheritedMember == [label |-> "undefined", color |-> "undefined", bgColor |-> "undefined"]

\* (mutant) the fallback of an empty status is 'processed'
currentStatusFallsBackToProcessed(u) ==
    IF invoice[u].row.status \in {"", NullStatus} THEN "processed"
    ELSE invoice[u].row.status

\* invoice.status || 'pending'
currentStatus(u) ==
    IF invoice[u].row.status \in {"", NullStatus} THEN "pending"
    ELSE invoice[u].row.status

\* statusConfig[currentStatus] || statusConfig.pending
statusInfo(u) ==
    LET key == currentStatus(u)
    IN  IF key \in DOMAIN statusConfig THEN statusConfig[key]
        ELSE IF key \in ObjectPrototypeKeys THEN InheritedMember
        ELSE statusConfig["pending"]

\* the "Potvrdi podatke" button is rendered
VerifyOffered(u) == ~isEditing[u] /\ currentStatus(u) = "processed"

\* the "Posalji racunovodji" button is rendered
SendOffered(u) == ~isEditing[u] /\ currentStatus(u) = "verified"

\* useState initialiser of formData
InitialFormData(row) ==
    [f \in EditableFields |->
        IF f \in NumericFields THEN OrElse(row.fields[f], Num(0))
        ELSE IF f = "currency" THEN OrElse(row.fields[f], Str(EUR))
        ELSE OrElse(row.fields[f], Str(<<>>))]

\* the object passed to update() by handleSave
SavePatch(form) ==
    [f \in EditableFields |->
        IF f \in NumericFields THEN Number(form[f]) ELSE form[f]]

----------------------------------------------------------------------------
(* The screen *)

InitialRow(st, fields) ==
    [status |-> st, fields |-> fields,
     line_items |-> Null, file_url |-> Str(<<"f">>)]

\* Both sessions have opened the page of invoice `open`; the extraction of
\* the other invoice has failed.
InitOn(open) ==
    /\ \E st \in StoredStatus, fl \in InitialFields :
          invoices = [i \in InvoiceIds |->
                         IF i = open THEN InitialRow(st, fl)
                         ELSE InitialRow("error", EmptyFields)]
    /\ invoice = [u \in Users |-> [id |-> open, row |-> invoices[open]]]
    /\ formData = [u \in Users |-> InitialFormData(invoices[open])]
    /\ isEditing = [u \in Users |-> FALSE]
    /\ isSaving = [u \in Users |-> FALSE]
    /\ request = [u \in Users |-> NoRequest]
    /\ lastAlert = [u \in Users |-> ""]
    /\ completed = [u \in Users |-> ""]
    /\ writes = 0
    /\ edits = 0

\* no parseLineItems call is modelled
ParseIdle ==
    /\ lineItems = Null
    /\ parsed = Null
    /\ parsePc = "idle"

\* the page of invoice id is opened: the component mounts with a fresh prop
Mount(u, id) ==
    /\ request[u].kind = "none"
    /\ invoice' = [invoice EXCEPT ![u] = [id |-> id, row |-> invoices[id]]]
    /\ formData' = [formData EXCEPT ![u] = InitialFormData(invoices[id])]
    /\ isEditing' = [isEditing EXCEPT ![u] = FALSE]
    /\ isSaving' = [isSaving EXCEPT ![u] = FALSE]
    /\ lastAlert' = [lastAlert EXCEPT ![u] = ""]
    /\ completed' = [completed EXCEPT ![u] = ""]
    /\ UNCHANGED <<invoices, request, writes, edits>>
    /\ UNCHANGED outsideScreen

\* "Uredi"
StartEditing(u) ==
    /\ ~isEditing[u]
    /\ isEditing' = [isEditing EXCEPT ![u] = TRUE]
    /\ UNCHANGED <<invoices, invoice, formData, isSaving, request, lastAlert, completed,
                   writes, edits>>
    /\ UNCHANGED outsideScreen

\* "Otkazi" (disabled while saving)
CancelEditing(u) ==
    /\ isEditing[u]
    /\ ~isSaving[u]
    /\ isEditing' = [isEditing EXCEPT ![u] = FALSE]
    /\ UNCHANGED <<invoices, invoice, formData, isSaving, request, lastAlert, completed,
                   writes, edits>>
    /\ UNCHANGED outsideScreen

handleInputChange(u, field, value) ==
    /\ isEditing[u]
    /\ edits < MaxEdits
    /\ formData' = [formData EXCEPT ![u][field] = value]
    /\ edits' = edits + 1
    /\ UNCHANGED <<invoices, invoice, isEditing, isSaving, request, lastAlert, completed,
                   writes>>
    /\ UNCHANGED outsideScreen

\* a handler up to its await: setIsSaving(true) and the request goes out
Issue(u, req) ==
    /\ ~isSaving[u]
    /\ request[u].kind = "none"
    /\ writes < MaxWrites
    /\ isSaving' = [isSaving EXCEPT ![u] = TRUE]
    /\ request' = [request EXCEPT ![u] = req]
    /\ lastAlert' = [lastAlert EXCEPT ![u] = ""]
    /\ completed' = [completed EXCEPT ![u] = ""]
    /\ writes' = writes + 1
    /\ UNCHANGED <<invoices, invoice, formData, isEditing, edits>>
    /\ UNCHANGED outsideScreen

\* (mutant) the save spreads the whole form state with a status into the patch
SaveRequestWithStatus(u) ==
    [kind |-> "save", id |-> invoice[u].id, cols |-> EditableFields \cup {"status"},
     status |-> "processed", fields |-> SavePatch(formData[u])]

\* (mutant) the save sends only the fields the user changed on this page
SaveRequestOfChanges(u) ==
    [kind |-> "save", id |-> invoice[u].id,
     cols |-> {f \in EditableFields :
                  formData[u][f] # InitialFormData(invoice[u].row)[f]},
     status |-> "", fields |-> SavePatch(formData[u])]

SaveRequest(u) ==
    [kind |-> "save", id |-> invoice[u].id, cols |-> EditableFields,
     status |-> "", fields |-> SavePatch(formData[u])]

VerifyRequest(u) ==
    [kind |-> "verify", id |-> invoice[u].id, cols |-> {"status"},
     status |-> "verified", fields |-> NoFields]

SendRequest(u) ==
    [kind |-> "send", id |-> invoice[u].id, cols |-> {"status"},
     status |-> "sent_to_accountant", fields |-> NoFields]

handleSaveStart(u) ==
    /\ isEditing[u]
    /\ Issue(u, SaveRequest(u))

handleVerifyStart(u) ==
    /\ VerifyOffered(u)
    /\ Issue(u, VerifyRequest(u))

handleSendToAccountantStart(u) ==
    /\ SendOffered(u)
    /\ Issue(u, SendRequest(u))

\* the text of the alert of each handler's catch block
AlertOf(kind) ==
    CASE kind = "save" -> "Greska pri spremanju"
      [] kind = "verify" -> "Greska pri verifikaciji"
      [] kind = "send" -> "Greska pri slanju"

\* the write is applied and the handler runs to its end:
\* setIsEditing(false) after a save, router.refresh(), setIsSaving(false)
WriteSucceeds(u) ==
    /\ request[u].kind # "none"
    /\ invoices' = UpdateEqId(invoices, request[u], request[u].id)
    /\ isEditing' = [isEditing EXCEPT ![u] = IF request[u].kind = "save" THEN FALSE ELSE @]
    /\ invoice' = [invoice EXCEPT ![u] = [id |-> @.id, row |-> invoices'[@.id]]]
    /\ isSaving' = [isSaving EXCEPT ![u] = FALSE]
    /\ request' = [request EXCEPT ![u] = NoRequest]
    /\ completed' = [completed EXCEPT ![u] = request[u].kind]
    /\ UNCHANGED <<formData, lastAlert, writes, edits>>
    /\ UNCHANGED outsideScreen

\* (mutant) setIsEditing(false) sits in the finally block
WriteFailsLeavesEditMode(u) ==
    /\ request[u].kind # "none"
    /\ lastAlert' = [lastAlert EXCEPT ![u] = AlertOf(request[u].kind)]
    /\ isEditing' = [isEditing EXCEPT ![u] = FALSE]
    /\ isSaving' = [isSaving EXCEPT ![u] = FALSE]
    /\ request' = [request EXCEPT ![u] = NoRequest]
    /\ UNCHANGED <<invoices, invoice, formData, completed, writes, edits>>
    /\ UNCHANGED outsideScreen

\* the write returns an error: catch block (alert), setIsSaving(false)
WriteFails(u) ==
    /\ request[u].kind # "none"
    /\ lastAlert' = [lastAlert EXCEPT ![u] = AlertOf(request[u].kind)]
    /\ isSaving' = [isSaving EXCEPT ![u] = FALSE]
    /\ request' = [request EXCEPT ![u] = NoRequest]
    /\ UNCHANGED <<invoices, invoice, formData, isEditing, completed, writes, edits>>
    /\ UNCHANGED outsideScreen

\* the extraction pipeline finishes an upload
ExtractionCompletes(i) ==
    /\ invoices[i].status = "pending"
    /\ invoices' = [invoices EXCEPT ![i].status = "processed"]
    /\ UNCHANGED <<invoice, formData, isEditing, isSaving, request, lastAlert, completed,
                   writes, edits>>
    /\ UNCHANGED outsideScreen

\* extraction or processing fails
ExtractionFails(i) ==
    /\ invoices[i].status # "error"
    /\ invoices' = [invoices EXCEPT ![i].status = "error"]
    /\ UNCHANGED <<invoice, formData, isEditing, isSaving, request, lastAlert, completed,
                   writes, edits>>
    /\ UNCHANGED outsideScreen

----------------------------------------------------------------------------
(* The line-item parser on its own *)

MaxTextLen == 5

\* the tokens JSON texts are drawn from
Alphabet == Punctuators \cup Numerals \cup {"\"A\""}

Texts == UNION {[1..n -> Alphabet] : n \in 0..MaxTextLen}

\* line_items = "[{\"description\":\"A\",\"amount\":10}]"
ScenarioText ==
    <<"[", "{", "\"description\"", ":", "\"A\"", ",", "\"amount\"", ":", "10", "}", "]">>

\* arrays as the driver hands them over, and everything else a column can hold
NativeArrays ==
    {Arr(<<>>), Arr(<<Num(10)>>), Arr(<<Null, Str(<<"A">>)>>),
     Arr(<<Obj(<<Member(<<"A">>, Num(10))>>)>>), Arr(<<Arr(<<>>)>>)}

OtherValues ==
    {Null, Undefined, NaN, Num(0), Num(10), Bool(FALSE), Bool(TRUE),
     Obj(<<>>), Obj(<<Member(<<"A">>, Num(10))>>)}

Arguments ==
    {Str(s) : s \in Texts} \cup {Str(ScenarioText)} \cup NativeArrays \cup OtherValues

\* const lineItems = parseLineItems(invoice.line_items)
ParseCall ==
    /\ parsePc = "call"
    /\ parsed' = parseLineItems(lineItems)
    /\ parsePc' = "returned"
    /\ UNCHANGED lineItems
    /\ UNCHANGED outsideParse

----------------------------------------------------------------------------
(* OrganizationProvider and the rows behind it *)

OrgIds == {"o1", "o2", "o3"}

\* the organizations of the signed-in user with the role in each, in the
\* order the membership query returns them
AllOrganizations ==
    <<[id |-> "o1", role |-> "owner"],
      [id |-> "o2", role |-> "employee"],
      [id |-> "o3", role |-> "employee"]>>

\* the keys of the settings map: the five the profile form writes, and one
\* that stands for every other key
ProfileKeys == {"pib", "pdv_number", "address", "email", "phone"}
SettingsKeys == ProfileKeys \cup {"theme"}

\* settings = {}
NoSettings == [k \in SettingsKeys |-> Undefined]

\* a row of "organizations" with only its name filled in
PlainOrganization(n) ==
    [name |-> Str(<<n>>), accountant_email |-> Null, logo_url |-> Null,
     pib |-> Null, pdv_number |-> Null, address |-> Null, city |-> Null,
     postal_code |-> Null, email |-> Null, phone |-> Null, settings |-> NoSettings]

OrganizationsAtRest == [o \in OrgIds |-> PlainOrganization(o)]

\* organization:organizations ( id, name, ... ) of the membership select
WithOrganization(rows) ==
    [i \in 1..Len(rows) |->
        [id |-> rows[i].id, role |-> rows[i].role, data |-> orgRows[rows[i].id]]]

\* currentOrganization = null
NoOrganization == [id |-> "", role |-> "", data |-> PlainOrganization("")]

RefreshCalls == {"r1", "r2"}
SwitchCalls == {"s1", "s2"}

\* what a remote call meets: the row access works, getUser() finds no user,
\* or the query fails
Outcomes == {"ok", "nouser", "error"}

RECURSIVE Filter(_, _)
Filter(list, keep) ==
    IF list = <<>> THEN <<>>
    ELSE IF Head(list).id \in keep THEN <<Head(list)>> \o Filter(Tail(list), keep)
    ELSE Filter(Tail(list), keep)

\* list.find(o => o.id === id): the first entry, or undefined
Found(list, id) == \E i \in 1..Len(list) : list[i].id = id
Find(list, id) ==
    list[CHOOSE i \in 1..Len(list) :
            list[i].id = id /\ \A j \in 1..(i - 1) : list[j].id # id]

\* DashboardLayout: the saved organization if it is in the list, else the first
LayoutOrganization(list, saved) ==
    IF Found(list, saved) THEN Find(list, saved) ELSE list[1]

IdleCall == [pc |-> "idle", orgs |-> <<>>, orgId |-> ""]

\* DashboardLayout renders DashboardShell with the user's organizations (at
\* least one, or it redirects to onboarding) and the provider starts from them
TenantInitWith(keep, saved) ==
    /\ memberships = Filter(AllOrganizations, keep)
    /\ profile = saved
    /\ organizations = WithOrganization(memberships)
    /\ currentOrganization = LayoutOrganization(organizations, saved)
    /\ isLoading = FALSE
    /\ refresh = [r \in RefreshCalls |-> IdleCall]
    /\ switch = [s \in SwitchCalls |-> IdleCall]

TenantInit ==
    \E keep \in SUBSET OrgIds : \E saved \in OrgIds \cup {""} :
        /\ keep # {}
        /\ TenantInitWith(keep, saved)

\* an owner of organization o removes the user's employee membership
\* (handleRemoveMember in another session)
MembershipRemoved(o) ==
    /\ \E i \in 1..Len(memberships) :
          memberships[i].id = o /\ memberships[i].role # "owner"
    /\ memberships' = Filter(memberships, OrgIds \ {o})
    /\ UNCHANGED <<profile, currentOrganization, organizations, isLoading, refresh, switch>>
    /\ UNCHANGED outsideTenant

\* fetchOrganizations that answers a failure with the list the provider holds
fetchOrganizationsKeepsListOnFailure(outcome) ==
    IF outcome = "ok" THEN WithOrganization(memberships) ELSE organizations

\* fetchOrganizations(): the rows, or [] without a user or on an error
fetchOrganizations(outcome) ==
    IF outcome = "ok" THEN WithOrganization(memberships) ELSE <<>>

\* getCurrentOrgFromProfile(): the saved id, or null
getCurrentOrgFromProfile(outcome) ==
    IF outcome = "ok" THEN profile ELSE ""

\* saveCurrentOrgToProfile(orgId): the profile row after the call
saveCurrentOrgToProfile(orgId, outcome) ==
    IF outcome = "ok" THEN orgId ELSE profile

\* refreshOrganizations up to `await fetchOrganizations()`
RefreshStart(r) ==
    /\ refresh[r].pc = "idle"
    /\ isLoading' = TRUE
    /\ refresh' = [refresh EXCEPT ![r].pc = "fetch"]
    /\ UNCHANGED <<memberships, profile, currentOrganization, organizations, switch>>
    /\ UNCHANGED outsideTenant

\* fetchOrganizations returns: setOrganizations(orgs); with an empty list
\* setCurrentOrganization(null) and the finally block, else on to
\* `await getCurrentOrgFromProfile()`
RefreshFetched(r, outcome) ==
    /\ refresh[r].pc = "fetch"
    /\ LET orgs == fetchOrganizations(outcome)
       IN  /\ organizations' = orgs
           /\ IF Len(orgs) > 0
              THEN /\ refresh' = [refresh EXCEPT ![r] = [pc |-> "profile", orgs |-> orgs,
                                                         orgId |-> ""]]
                   /\ UNCHANGED <<currentOrganization, isLoading>>
              ELSE /\ currentOrganization' = NoOrganization
                   /\ isLoading' = FALSE
                   /\ refresh' = [refresh EXCEPT ![r] = IdleCall]
    /\ UNCHANGED <<memberships, profile, switch>>
    /\ UNCHANGED outsideTenant

\* getCurrentOrgFromProfile returns: the saved organization is restored and
\* the finally block runs, or the first one is set and
\* `await saveCurrentOrgToProfile(orgs[0].id)` starts
RefreshProfileRead(r, outcome) ==
    /\ refresh[r].pc = "profile"
    /\ LET orgs == refresh[r].orgs
           savedOrgId == getCurrentOrgFromProfile(outcome)
       IN  IF Found(orgs, savedOrgId)
           THEN /\ currentOrganization' = Find(orgs, savedOrgId)
                /\ isLoading' = FALSE
                /\ refresh' = [refresh EXCEPT ![r] = IdleCall]
           ELSE /\ currentOrganization' = orgs[1]
                /\ refresh' = [refresh EXCEPT ![r].pc = "save", ![r].orgId = orgs[1].id]
                /\ UNCHANGED isLoading
    /\ UNCHANGED <<memberships, profile, organizations, switch>>
    /\ UNCHANGED outsideTenant

\* saveCurrentOrgToProfile returns, then the finally block
RefreshSaved(r, outcome) ==
    /\ refresh[r].pc = "save"
    /\ profile' = saveCurrentOrgToProfile(refresh[r].orgId, outcome)
    /\ isLoading' = FALSE
    /\ refresh' = [refresh EXCEPT ![r] = IdleCall]
    /\ UNCHANGED <<memberships, currentOrganization, organizations, switch>>
    /\ UNCHANGED outsideTenant

\* switchOrganization that falls back to the first organization when the id
\* is not in the list
SwitchStartFallsBackToFirst(s, orgId) ==
    /\ switch[s].pc = "idle"
    /\ IF Found(organizations, orgId)
       THEN /\ currentOrganization' = Find(organizations, orgId)
            /\ switch' = [switch EXCEPT ![s].pc = "save", ![s].orgId = orgId]
       ELSE /\ switch' = [switch EXCEPT ![s].pc = "returned", ![s].orgId = orgId]
            /\ currentOrganization' =
                  IF organizations = <<>> THEN NoOrganization ELSE organizations[1]
    /\ UNCHANGED <<memberships, profile, organizations, isLoading, refresh>>
    /\ UNCHANGED outsideTenant

\* switchOrganization(orgId) up to `await saveCurrentOrgToProfile(orgId)`;
\* with an id that is not in the list it returns at once
SwitchStart(s, orgId) ==
    /\ switch[s].pc = "idle"
    /\ IF Found(organizations, orgId)
       THEN /\ currentOrganization' = Find(organizations, orgId)
            /\ switch' = [switch EXCEPT ![s].pc = "save", ![s].orgId = orgId]
       ELSE /\ switch' = [switch EXCEPT ![s].pc = "returned", ![s].orgId = orgId]
            /\ UNCHANGED currentOrganization
    /\ UNCHANGED <<memberships, profile, organizations, isLoading, refresh>>
    /\ UNCHANGED outsideTenant

\* switchOrganization that undoes the local switch when the selection could
\* not be persisted
SwitchSavedUndoesOnFailure(s, outcome) ==
    /\ switch[s].pc = "save"
    /\ profile' = saveCurrentOrgToProfile(switch[s].orgId, outcome)
    /\ switch' = [switch EXCEPT ![s].pc = "returned"]
    /\ currentOrganization' =
          IF outcome = "ok" THEN currentOrganization
          ELSE LayoutOrganization(organizations \o <<NoOrganization>>, profile)
    /\ UNCHANGED <<memberships, organizations, isLoading, refresh>>
    /\ UNCHANGED outsideTenant

\* saveCurrentOrgToProfile returns to switchOrganization, which returns
SwitchSaved(s, outcome) ==
    /\ switch[s].pc = "save"
    /\ profile' = saveCurrentOrgToProfile(switch[s].orgId, outcome)
    /\ switch' = [switch EXCEPT ![s].pc = "returned"]
    /\ UNCHANGED <<memberships, currentOrganization, organizations, isLoading, refresh>>
    /\ UNCHANGED outsideTenant

\* the caller goes on after `await switchOrganization(orgId)`
SwitchReturned(s) ==
    /\ switch[s].pc = "returned"
    /\ switch' = [switch EXCEPT ![s] = IdleCall]
    /\ UNCHANGED <<memberships, profile, currentOrganization, organizations, isLoading,
                   refresh>>
    /\ UNCHANGED outsideTenant

\* Derived values of the provider

\* a role cached from the first organization of the list
roleOfFirstOrganization ==
    IF organizations = <<>> THEN "" ELSE organizations[1].role

\* const role = currentOrganization?.role || null   (null is "")
role ==
    IF currentOrganization = NoOrganization THEN "" ELSE currentOrganization.role

isOwner == role = "owner"

canManageMembers == isOwner

canManageProjects == TRUE

canExportReports == TRUE

\* the provider of a dashboard whose user belongs to all three organizations
TenantAtRest == TenantInitWith(OrgIds, "o1")

----------------------------------------------------------------------------
(* TeamMembersPage and the rows behind it *)

\* the membership rows of the organizations, in the order of created_at
AllMemberRows ==
    <<[id |-> "m1", org |-> "o1", role |-> "owner"],
      [id |-> "m2", org |-> "o1", role |-> "owner"],
      [id |-> "m3", org |-> "o1", role |-> "employee"],
      [id |-> "m4", org |-> "o2", role |-> "owner"],
      [id |-> "m5", org |-> "o2", role |-> "employee"]>>

MemberRowSet == {AllMemberRows[i] : i \in 1..Len(AllMemberRows)}

NoMember == [id |-> "", org |-> "", role |-> ""]

LoadCalls == {"l1", "l2"}

IdleLoad == [pc |-> "idle", org |-> "", rows |-> <<>>]

IdleRemoval == [pc |-> "idle", member |-> NoMember]

\* the toasts of the page
MemberToasts ==
    [OwnerRejected |-> "Ne mozete ukloniti vlasnika",
     MemberRemoved |-> "Clan uspjesno uklonjen",
     RemoveFailed |-> "Greska pri uklanjanju clana",
     LoadFailed |-> "Greska pri ucitavanju clanova"]

\* the message of an error object
BackendMessage == "<error.message>"

\* .from('organization_members').select(...).eq('organization_id', orgId)
\*     .order('created_at', { ascending: true })
RECURSIVE SelectMembers(_, _, _)
SelectMembers(list, rows, orgId) ==
    IF list = <<>> THEN <<>>
    ELSE IF Head(list) \in rows /\ Head(list).org = orgId
         THEN <<Head(list)>> \o SelectMembers(Tail(list), rows, orgId)
         ELSE SelectMembers(Tail(list), rows, orgId)

\* a delete that takes every row of the member's organization
DeleteEqOrganization(rows, id) ==
    {row \in rows : \A gone \in rows : gone.id = id => row.org # gone.org}

\* .delete().eq('id', id)
DeleteEqId(rows, id) == {row \in rows : row.id # id}

\* the invite dialog as the page mounts
ClosedInvite ==
    [showInviteModal |-> FALSE, inviteEmail |-> <<>>, inviteName |-> <<>>,
     invitePhone |-> <<>>, inviteRole |-> "employee", inviting |-> FALSE]

\* the page as it mounts: useState([]), useState(true)
MembersMounted(rows) ==
    /\ inviteModal = ClosedInvite
    /\ memberRows = rows
    /\ members = <<>>
    /\ loading = TRUE
    /\ toast = ""
    /\ loads = [l \in LoadCalls |-> IdleLoad]
    /\ removal = IdleRemoval
    /\ reloadSeen = "unmounted"

MembersAtRest == MembersMounted(MemberRowSet)

\* every organization that has rows has an owner
HasOwners(rows) ==
    \A row \in rows : \E o \in rows : o.org = row.org /\ o.role = "owner"

\* both organizations exist: the first with an owner, an employee and
\* possibly a second owner, the second with its owner alone
MembersInit ==
    \E rows \in SUBSET (MemberRowSet \ {AllMemberRows[5]}) :
        /\ HasOwners(rows)
        /\ {AllMemberRows[1], AllMemberRows[3], AllMemberRows[4]} \subseteq rows
        /\ MembersMounted(rows)

\* loadMembers() up to its first await; without a current organization it
\* returns at once
LoadBegins(l) ==
    IF currentOrganization = NoOrganization
    THEN UNCHANGED <<loading, loads>>
    ELSE /\ loading' = TRUE
         /\ loads' = [loads EXCEPT ![l] = [pc |-> "query", org |-> currentOrganization.id,
                                            rows |-> <<>>]]

\* the effect on mount and on a change of currentOrganization?.id
LoadStart(l) ==
    /\ reloadSeen # currentOrganization.id
    /\ reloadSeen' = currentOrganization.id
    /\ loads[l].pc = "idle"
    /\ LoadBegins(l)
    /\ UNCHANGED <<memberRows, members, toast, removal>>
    /\ UNCHANGED tenantVars
    /\ UNCHANGED outsideMembers

\* the membership query returns: on to getUser() and the profiles query, or
\* the catch and finally blocks
LoadQueried(l, outcome) ==
    /\ loads[l].pc = "query"
    /\ IF outcome = "ok"
       THEN /\ loads' = [loads EXCEPT ![l].pc = "set",
                                      ![l].rows = SelectMembers(AllMemberRows, memberRows,
                                                                loads[l].org)]
            /\ UNCHANGED <<loading, toast>>
       ELSE /\ toast' = MemberToasts.LoadFailed
            /\ loading' = FALSE
            /\ loads' = [loads EXCEPT ![l] = IdleLoad]
    /\ UNCHANGED <<memberRows, members, removal>>
    /\ UNCHANGED tenantVars
    /\ UNCHANGED outsideMembers
    /\ UNCHANGED reloadSeen

\* getUser() and the profiles query return: setMembers and the finally block,
\* or the catch and finally blocks
LoadFinished(l, outcome) ==
    /\ loads[l].pc = "set"
    /\ IF outcome = "ok"
       THEN /\ members' = loads[l].rows
            /\ UNCHANGED toast
       ELSE /\ toast' = MemberToasts.LoadFailed
            /\ UNCHANGED members
    /\ loading' = FALSE
    /\ loads' = [loads EXCEPT ![l] = IdleLoad]
    /\ UNCHANGED <<memberRows, removal>>
    /\ UNCHANGED tenantVars
    /\ UNCHANGED outsideMembers
    /\ UNCHANGED reloadSeen

\* handleRemoveMember without the owner check
handleRemoveMemberUnchecked(i, confirmed) ==
    /\ removal.pc = "idle"
    /\ i \in 1..Len(members)
    /\ IF ~confirmed
       THEN UNCHANGED <<toast, removal>>
       ELSE /\ removal' = [pc |-> "delete", member |-> members[i]]
            /\ UNCHANGED toast
    /\ UNCHANGED <<memberRows, members, loading, loads>>
    /\ UNCHANGED tenantVars
    /\ UNCHANGED outsideMembers
    /\ UNCHANGED reloadSeen

\* handleRemoveMember(member) up to `await ...delete().eq('id', member.id)`:
\* the owner check, then confirm()
handleRemoveMember(i, confirmed) ==
    /\ removal.pc = "idle"
    /\ i \in 1..Len(members)
    /\ IF members[i].role = "owner"
       THEN /\ toast' = MemberToasts.OwnerRejected
            /\ UNCHANGED removal
       ELSE IF ~confirmed
       THEN UNCHANGED <<toast, removal>>
       ELSE /\ removal' = [pc |-> "delete", member |-> members[i]]
            /\ UNCHANGED toast
    /\ UNCHANGED <<memberRows, members, loading, loads>>
    /\ UNCHANGED tenantVars
    /\ UNCHANGED outsideMembers
    /\ UNCHANGED reloadSeen

\* (mutant) loadMembers() sits after the catch block
DeleteReturnsThenReloads(outcome, l) ==
    /\ removal.pc = "delete"
    /\ loads[l].pc = "idle"
    /\ IF outcome = "ok"
       THEN /\ memberRows' = DeleteEqId(memberRows, removal.member.id)
            /\ toast' = MemberToasts.MemberRemoved
       ELSE /\ toast' \in {BackendMessage, MemberToasts.RemoveFailed}
            /\ UNCHANGED memberRows
    /\ LoadBegins(l)
    /\ removal' = IdleRemoval
    /\ UNCHANGED members
    /\ UNCHANGED tenantVars
    /\ UNCHANGED outsideMembers
    /\ UNCHANGED reloadSeen

\* the delete returns: the success toast and loadMembers(), or the error toast
DeleteReturns(outcome, l) ==
    /\ removal.pc = "delete"
    /\ loads[l].pc = "idle"
    /\ IF outcome = "ok"
       THEN /\ memberRows' = DeleteEqId(memberRows, removal.member.id)
            /\ toast' = MemberToasts.MemberRemoved
            /\ LoadBegins(l)
       ELSE /\ toast' \in {BackendMessage, MemberToasts.RemoveFailed}
            /\ UNCHANGED <<memberRows, loading, loads>>
    /\ removal' = IdleRemoval
    /\ UNCHANGED members
    /\ UNCHANGED tenantVars
    /\ UNCHANGED outsideMembers
    /\ UNCHANGED reloadSeen

\* The invite dialog of the page

\* what is typed into the inputs of the dialog
InviteTexts ==
    [inviteEmail |-> {<<>>, <<" ">>, <<"a", "@", "b">>, <<" ", "a", "@", "b">>},
     inviteName |-> {<<>>, <<"N">>},
     invitePhone |-> {<<>>, <<"1">>},
     inviteRole |-> {"employee", "owner"}]

\* a sequence of characters as the text of a toast
RECURSIVE Text(_)
Text(s) == IF s = <<>> THEN "" ELSE Head(s) \o Text(Tail(s))

\* `Pozivnica za ${inviteName || inviteEmail} ce biti poslana (funkcionalnost u izradi)`
InviteAnnounced(dialog) ==
    "Pozivnica za "
        \o Text(IF dialog.inviteName # <<>> THEN dialog.inviteName ELSE dialog.inviteEmail)
        \o " ce biti poslana (funkcionalnost u izradi)"

\* the button of the header (owners only) and the two close buttons
SetShowInviteModal(show) ==
    /\ inviteModal.showInviteModal # show
    /\ show => isOwner
    /\ inviteModal' = [inviteModal EXCEPT !.showInviteModal = show]
    /\ UNCHANGED memberVars
    /\ UNCHANGED outsideInvite

\* onChange of the inputs and of the role select of the dialog
InviteInput(field, value) ==
    /\ inviteModal.showInviteModal
    /\ inviteModal[field] # value
    /\ inviteModal' = [inviteModal EXCEPT ![field] = value]
    /\ UNCHANGED memberVars
    /\ UNCHANGED outsideInvite

\* (mutant) an invitation that adds the membership row of the invited user
handleInviteAddsMember ==
    /\ inviteModal.showInviteModal
    /\ IF TrimRight(TrimLeft(inviteModal.inviteEmail)) = <<>>
       THEN UNCHANGED <<inviteModal, toast, memberRows>>
       ELSE /\ toast' = InviteAnnounced(inviteModal)
            /\ memberRows' = memberRows \cup
                  {[id |-> "m9", org |-> currentOrganization.id,
                    role |-> inviteModal.inviteRole]}
            /\ inviteModal' = [inviteModal EXCEPT !.showInviteModal = FALSE,
                                                   !.inviteEmail = <<>>,
                                                   !.inviteName = <<>>,
                                                   !.invitePhone = <<>>]
    /\ UNCHANGED <<members, loading, loads, removal, reloadSeen>>
    /\ UNCHANGED outsideInvite

\* handleInvite: it returns on a blank email; else the toast, the dialog is
\* closed and the three inputs are cleared (setInviting(true) and, in the
\* finally block, setInviting(false) fall in the same step)
handleInvite ==
    /\ inviteModal.showInviteModal
    /\ IF TrimRight(TrimLeft(inviteModal.inviteEmail)) = <<>>
       THEN UNCHANGED <<inviteModal, toast>>
       ELSE /\ toast' = InviteAnnounced(inviteModal)
            /\ inviteModal' = [inviteModal EXCEPT !.showInviteModal = FALSE,
                                                   !.inviteEmail = <<>>,
                                                   !.inviteName = <<>>,
                                                   !.invitePhone = <<>>]
    /\ UNCHANGED <<memberRows, members, loading, loads, removal, reloadSeen>>
    /\ UNCHANGED outsideInvite

----------------------------------------------------------------------------
(* SettingsPage: the organization profile and the logo *)

FormFields == {"name", "pib", "pdv_number", "address", "email", "phone", "accountant_email"}

\* useState({ name: '', pib: '', ... })
EmptyForm == [f \in FormFields |-> Str(<<>>)]

\* `${org.address}${org.city ? ', ' + org.city : ''}${org.postal_code ? ' ' + org.postal_code : ''}`
AddressLine(org) ==
    Str(org.address.s
        \o (IF Falsy(org.city) THEN <<>> ELSE <<",", " ">> \o org.city.s)
        \o (IF Falsy(org.postal_code) THEN <<>> ELSE <<" ">> \o org.postal_code.s))

\* a form filled from the settings map first
loadProfileSettingsFirst(org) ==
    [f \in FormFields |->
        IF f \in ProfileKeys
        THEN OrElse(org.settings[f], OrElse(org[f], Str(<<>>)))
        ELSE OrElse(org[f], Str(<<>>))]

\* the object passed to setFormData by the load effect
loadProfile(org) ==
    [name |-> OrElse(org.name, Str(<<>>)),
     pib |-> OrElse(org.pib, OrElse(org.settings["pib"], Str(<<>>))),
     pdv_number |-> OrElse(org.pdv_number, OrElse(org.settings["pdv_number"], Str(<<>>))),
     address |-> IF ~Falsy(org.address) THEN AddressLine(org)
                 ELSE OrElse(org.settings["address"], Str(<<>>)),
     email |-> OrElse(org.email, OrElse(org.settings["email"], Str(<<>>))),
     phone |-> OrElse(org.phone, OrElse(org.settings["phone"], Str(<<>>))),
     accountant_email |-> OrElse(org.accountant_email, Str(<<>>))]

\* the toasts of the page
SettingsToasts ==
    [SettingsSaved |-> "Postavke uspjesno sacuvane",
     SaveFailed |-> "Greska pri cuvanju",
     FormatRejected |-> "Dozvoljeni formati: PNG, JPG, WEBP",
     SizeRejected |-> "Maksimalna velicina je 2MB",
     LogoUploaded |-> "Logo uspjesno uploadovan",
     UploadFailed |-> "Greska pri uploadu",
     LogoRemoved |-> "Logo uklonjen",
     LogoRemoveFailed |-> "Greska pri uklanjanju"]

allowedTypes == {"image/png", "image/jpeg", "image/jpg", "image/webp"}

\* 2 * 1024 * 1024
MaxLogoBytes == 2097152

NoFile == [type |-> "", size |-> 0 - 1]

IdleSubmit == [pc |-> "idle", id |-> "", form |-> EmptyForm, settings |-> NoSettings]

IdleLogo == [pc |-> "idle", id |-> ""]

\* the page as it mounts
SettingsMounted ==
    /\ settingsForm = EmptyForm
    /\ effectSeen = NoOrganization
    /\ settingsLoading = FALSE
    /\ uploadingLogo = FALSE
    /\ settingsToast = ""
    /\ fileInput = NoFile
    /\ submit = IdleSubmit
    /\ logoCall = IdleLogo

\* the page mounted over rows of "organizations" nobody has edited
SettingsAtRest ==
    /\ orgRows = OrganizationsAtRest
    /\ SettingsMounted

\* ---- the organizations the load effect is applied to

Text123 == <<"1", "2", "3">>
Text999 == <<"9", "9", "9">>
MainSt == <<"M", "a", "i", "n", " ", "S", "t">>
ElmRd == <<"E", "l", "m", " ", "R", "d">>

\* a first-class column holds null, '' or a text; a key of the settings map
\* is absent or holds null, '' or a text
ColumnValues == {Null, Str(<<>>), Str(Text123)}
SettingValues == {Undefined, Null, Str(<<>>), Str(Text999)}

\* tax and contact columns against the settings map
TaxContactOrganizations ==
    {[PlainOrganization("o1") EXCEPT
         !.pib = c[1], !.pdv_number = c[2], !.email = c[3], !.phone = c[4],
         !.settings = [k \in SettingsKeys |->
                          CASE k = "pib" -> s[1]
                            [] k = "pdv_number" -> s[2]
                            [] k = "email" -> s[3]
                            [] k = "phone" -> s[4]
                            [] OTHER -> Undefined]] :
        c \in [1..4 -> ColumnValues], s \in [1..4 -> SettingValues]}

\* the address parts, the name and the accountant email
AddressOrganizations ==
    {[PlainOrganization("o1") EXCEPT
         !.name = n, !.accountant_email = ae,
         !.address = a, !.city = c, !.postal_code = z,
         !.settings = [NoSettings EXCEPT !["address"] = sa]] :
        n \in {Str(<<>>), Str(<<"N">>)}, ae \in {Null, Str(<<"a">>)},
        a \in {Null, Str(<<>>), Str(ElmRd)}, c \in {Null, Str(<<>>), Str(<<"C">>)},
        z \in {Null, Str(<<>>), Str(<<"7">>)},
        sa \in {Undefined, Null, Str(<<>>), Str(MainSt)}}

ProfileOrganizations == TaxContactOrganizations \cup AddressOrganizations

\* .update(patch).eq('id', id) on "organizations"
UpdateOrganization(rows, id, patch) ==
    [o \in DOMAIN rows |->
        IF o = id
        THEN [c \in DOMAIN rows[o] |->
                 IF c \in DOMAIN patch THEN patch[c] ELSE rows[o][c]]
        ELSE rows[o]]

\* an update object that carries only the five keys as the settings map
ProfilePatchReplacingSettings(form, settings) ==
    [name |-> form.name,
     accountant_email |-> form.accountant_email,
     settings |-> [k \in SettingsKeys |-> IF k \in ProfileKeys THEN form[k] ELSE Undefined]]

\* the update object of handleSubmit: { name, accountant_email,
\* settings: { ...(currentOrganization.settings || {}), pib, ... } }
ProfilePatch(form, settings) ==
    [name |-> form.name,
     accountant_email |-> form.accountant_email,
     settings |-> [k \in SettingsKeys |-> IF k \in ProfileKeys THEN form[k] ELSE settings[k]]]

\* refreshOrganizations?.() up to its first await, not awaited by the caller
RefreshBegins(r) ==
    /\ refresh[r].pc = "idle"
    /\ isLoading' = TRUE
    /\ refresh' = [refresh EXCEPT ![r].pc = "fetch"]

\* useEffect(..., [currentOrganization]): the form is filled from the
\* organization of the context
ProfileEffect ==
    /\ effectSeen # currentOrganization
    /\ effectSeen' = currentOrganization
    /\ settingsForm' = IF currentOrganization = NoOrganization THEN settingsForm
                       ELSE loadProfile(currentOrganization.data)
    /\ UNCHANGED <<orgRows, settingsLoading, uploadingLogo, settingsToast, fileInput,
                   submit, logoCall>>
    /\ UNCHANGED tenantVars
    /\ UNCHANGED outsideSettings

\* onChange of an input of the form
SettingsInput(field, value) ==
    /\ settingsForm[field] # value
    /\ settingsForm' = [settingsForm EXCEPT ![field] = value]
    /\ UNCHANGED <<orgRows, effectSeen, settingsLoading, uploadingLogo, settingsToast,
                   fileInput, submit, logoCall>>
    /\ UNCHANGED tenantVars
    /\ UNCHANGED outsideSettings

\* handleSubmit up to `await ...update(...).eq('id', currentOrganization.id)`;
\* the name input is required and the button is disabled while loading
handleSubmit ==
    /\ ~settingsLoading
    /\ ~Falsy(settingsForm.name)
    /\ currentOrganization # NoOrganization
    /\ settingsLoading' = TRUE
    /\ submit' = [pc |-> "update", id |-> currentOrganization.id, form |-> settingsForm,
                   settings |-> currentOrganization.data.settings]
    /\ UNCHANGED <<orgRows, settingsForm, effectSeen, uploadingLogo, settingsToast,
                   fileInput, logoCall>>
    /\ UNCHANGED tenantVars
    /\ UNCHANGED outsideSettings

\* the update returns: the success toast and refreshOrganizations?.(), or the
\* error toast; then the finally block
SubmitReturns(outcome, r) ==
    /\ submit.pc = "update"
    /\ IF outcome = "ok"
       THEN /\ orgRows' = UpdateOrganization(orgRows, submit.id,
                                             ProfilePatch(submit.form, submit.settings))
            /\ settingsToast' = SettingsToasts.SettingsSaved
            /\ RefreshBegins(r)
       ELSE /\ settingsToast' \in {BackendMessage, SettingsToasts.SaveFailed}
            /\ UNCHANGED <<orgRows, isLoading, refresh>>
    /\ settingsLoading' = FALSE
    /\ submit' = IdleSubmit
    /\ UNCHANGED <<settingsForm, effectSeen, uploadingLogo, fileInput, logoCall>>
    /\ UNCHANGED <<memberships, profile, currentOrganization, organizations, switch>>
    /\ UNCHANGED outsideSettings

\* ---- the logo

\* the files a user may pick
FileTypes == allowedTypes \cup {"image/gif"}
FileSizes == {1, MaxLogoBytes, MaxLogoBytes + 1}
Files == {[type |-> ty, size |-> sz] : ty \in FileTypes, sz \in FileSizes}

\* the URL the upload route stores
LogoUrl == Str(<<"u">>)

\* handleLogoUpload that checks only the type of the file
handleLogoUploadAnySize(file) ==
    /\ ~uploadingLogo
    /\ logoCall.pc = "idle"
    /\ file # fileInput
    /\ fileInput' = file
    /\ IF file.type \notin allowedTypes
       THEN /\ settingsToast' = SettingsToasts.FormatRejected
            /\ UNCHANGED <<uploadingLogo, logoCall>>
       ELSE /\ uploadingLogo' = TRUE
            /\ logoCall' = [pc |-> "upload", id |-> currentOrganization.id]
            /\ UNCHANGED settingsToast
    /\ UNCHANGED <<orgRows, settingsForm, effectSeen, settingsLoading, submit>>
    /\ UNCHANGED tenantVars
    /\ UNCHANGED outsideSettings

\* handleLogoUpload (onChange of the file input) up to
\* `await fetch('/api/upload-logo', ...)`: the type and size checks
handleLogoUpload(file) ==
    /\ ~uploadingLogo
    /\ logoCall.pc = "idle"
    /\ file # fileInput
    /\ fileInput' = file
    /\ IF file.type \notin allowedTypes
       THEN /\ settingsToast' = SettingsToasts.FormatRejected
            /\ UNCHANGED <<uploadingLogo, logoCall>>
       ELSE IF file.size > MaxLogoBytes
       THEN /\ settingsToast' = SettingsToasts.SizeRejected
            /\ UNCHANGED <<uploadingLogo, logoCall>>
       ELSE /\ uploadingLogo' = TRUE
            /\ logoCall' = [pc |-> "upload", id |-> currentOrganization.id]
            /\ UNCHANGED settingsToast
    /\ UNCHANGED <<orgRows, settingsForm, effectSeen, settingsLoading, submit>>
    /\ UNCHANGED tenantVars
    /\ UNCHANGED outsideSettings

\* handleRemoveLogo up to `await ...update({ logo_url: null })`; the button is
\* rendered for an organization with a logo and disabled while uploadingLogo
handleRemoveLogo(confirmed) ==
    /\ ~uploadingLogo
    /\ logoCall.pc = "idle"
    /\ currentOrganization # NoOrganization
    /\ ~Falsy(currentOrganization.data.logo_url)
    /\ IF confirmed
       THEN /\ uploadingLogo' = TRUE
            /\ logoCall' = [pc |-> "remove", id |-> currentOrganization.id]
       ELSE UNCHANGED <<uploadingLogo, logoCall>>
    /\ UNCHANGED <<orgRows, settingsForm, effectSeen, settingsLoading, settingsToast,
                   fileInput, submit>>
    /\ UNCHANGED tenantVars
    /\ UNCHANGED outsideSettings

\* the upload or the update returns: the success toast and
\* refreshOrganizations?.(), or the error toast; then the finally block
LogoReturns(outcome, r) ==
    /\ logoCall.pc \in {"upload", "remove"}
    /\ IF outcome = "ok"
       THEN /\ orgRows' = UpdateOrganization(orgRows, logoCall.id,
                              [logo_url |-> IF logoCall.pc = "upload" THEN LogoUrl ELSE Null])
            /\ settingsToast' = IF logoCall.pc = "upload" THEN SettingsToasts.LogoUploaded ELSE SettingsToasts.LogoRemoved
            /\ RefreshBegins(r)
       ELSE /\ settingsToast' \in {BackendMessage,
                                   IF logoCall.pc = "upload" THEN SettingsToasts.UploadFailed
                                   ELSE SettingsToasts.LogoRemoveFailed}
            /\ UNCHANGED <<orgRows, isLoading, refresh>>
    /\ uploadingLogo' = FALSE
    /\ fileInput' = IF logoCall.pc = "upload" THEN NoFile ELSE fileInput
    /\ logoCall' = IdleLogo
    /\ UNCHANGED <<settingsForm, effectSeen, settingsLoading, submit>>
    /\ UNCHANGED <<memberships, profile, currentOrganization, organizations, switch>>
    /\ UNCHANGED outsideSettings

\* what the form inputs are changed to
SettingsInputs == {<<"name", Str(<<"B">>)>>, <<"pib", Str(<<"7">>)>>}

\* the organizations the page is opened on
SettingsOrganizations ==
    {PlainOrganization("o1"),
     [PlainOrganization("o1") EXCEPT
         !.pib = Str(Text123), !.address = Str(ElmRd), !.city = Str(<<"C">>),
         !.settings = [NoSettings EXCEPT !["pib"] = Str(Text999),
                                         !["theme"] = Str(<<"d">>)]]}

----------------------------------------------------------------------------
(* RegisterPage and LoginPage against the identity service *)

\* error.message.includes(part)
Includes(msg, part) ==
    \E i \in 0..(Len(msg) - Len(part)) : SubSeq(msg, i + 1, i + Len(part)) = part

\* the texts RegisterPage passes to setError itself
RegisterMessages ==
    [Mismatch |-> "Lozinke se ne podudaraju",
     TooShort |-> "Lozinka mora imati najmanje 6 karaktera",
     AlreadyRegistered |-> "Ovaj email je vec registrovan",
     Fallback |-> "Doslo je do greske. Pokusajte ponovo."]

\* the texts LoginPage passes to setError (written here without diacritics)
LoginMessages ==
    [WrongCredentials |-> "Pogresan email ili lozinka",
     Fallback |-> "Doslo je do greske. Pokusajte ponovo."]

\* error.message of the identity service for a sign-up that is refused
BackendErrors ==
    {"User already registered",
     "Email rate limit exceeded",
     "Database error saving new user"}

\* the ids the identity service gives to new users
NewUsers == {"n1", "n2"}

\* what is typed into the password inputs (both are `required`)
Passwords == {"aaaaa", "aaaaaa", "bbbbbb", "aaaaaaa"}

\* RegisterPage as it mounts
RegisterMounted ==
    [password |-> "", confirmPassword |-> "", error |-> "", loading |-> FALSE,
     pc |-> "idle", user |-> ""]

\* LoginPage as it mounts
LoginMounted == [error |-> "", loading |-> FALSE, pc |-> "idle"]

\* nobody is at the login or the registration page
AuthAtRest ==
    /\ profileRows = {}
    /\ route = "/dashboard"
    /\ registerPage = RegisterMounted
    /\ loginPage = LoginMounted

\* the browser opens /register or /login: the page mounts
OpenPage(page) ==
    /\ route # page
    /\ registerPage.pc = "idle"
    /\ loginPage.pc = "idle"
    /\ route' = page
    /\ registerPage' = RegisterMounted
    /\ loginPage' = LoginMounted
    /\ UNCHANGED profileRows
    /\ UNCHANGED outsideAuth

\* onChange of the password inputs: setPassword, setConfirmPassword
RegisterInput(field, value) ==
    /\ route = "/register"
    /\ registerPage.pc = "idle"
    /\ registerPage[field] # value
    /\ registerPage' = [registerPage EXCEPT ![field] = value]
    /\ UNCHANGED <<profileRows, route, loginPage>>
    /\ UNCHANGED outsideAuth

\* the message handleRegister shows for an error of signUp
SignUpError(message) ==
    IF Includes(message, "already registered")
    THEN RegisterMessages.AlreadyRegistered
    ELSE message

\* handleRegister up to `await supabase.auth.signUp(...)`: setError(''), the
\* two checks of the password, setLoading(true)
handleRegister ==
    /\ route = "/register"
    /\ registerPage.pc = "idle"
    /\ registerPage.password # ""
    /\ registerPage' =
          IF registerPage.password # registerPage.confirmPassword
          THEN [registerPage EXCEPT !.error = RegisterMessages.Mismatch]
          ELSE IF Len(registerPage.password) < 6
          THEN [registerPage EXCEPT !.error = RegisterMessages.TooShort]
          ELSE [registerPage EXCEPT !.error = "", !.loading = TRUE, !.pc = "signUp"]
    /\ UNCHANGED <<profileRows, route, loginPage>>
    /\ UNCHANGED outsideAuth

\* signUp returns: an error, a user (on to the upsert of the profile row), no
\* user, or it throws; the finally block runs when the handler ends here
SignUpReturns(outcome, message, user) ==
    /\ registerPage.pc = "signUp"
    /\ registerPage' =
          IF outcome = "error"
          THEN [registerPage EXCEPT !.error = SignUpError(message), !.loading = FALSE,
                                    !.pc = "idle"]
          ELSE IF outcome = "user"
          THEN [registerPage EXCEPT !.pc = "upsert", !.user = user]
          ELSE IF outcome = "nouser"
          THEN [registerPage EXCEPT !.loading = FALSE, !.pc = "idle"]
          ELSE [registerPage EXCEPT !.error = RegisterMessages.Fallback, !.loading = FALSE,
                                    !.pc = "idle"]
    /\ UNCHANGED <<profileRows, route, loginPage>>
    /\ UNCHANGED outsideAuth

\* the upsert of { id: data.user.id, full_name } returns: the row is written
\* or the backend answers with an error (the result is not looked at), then
\* router.push('/onboarding'); or the call throws
UpsertReturns(outcome) ==
    /\ registerPage.pc = "upsert"
    /\ profileRows' = IF outcome = "ok" THEN profileRows \cup {registerPage.user}
                      ELSE profileRows
    /\ route' = IF outcome = "throws" THEN route ELSE "/onboarding"
    /\ registerPage' =
          [registerPage EXCEPT !.loading = FALSE, !.pc = "idle",
                               !.error = IF outcome = "throws"
                                         THEN RegisterMessages.Fallback ELSE @]
    /\ UNCHANGED loginPage
    /\ UNCHANGED outsideAuth

\* handleLogin up to `await supabase.auth.signInWithPassword(...)`
handleLogin ==
    /\ route = "/login"
    /\ loginPage.pc = "idle"
    /\ loginPage' = [error |-> "", loading |-> TRUE, pc |-> "signIn"]
    /\ UNCHANGED <<profileRows, route, registerPage>>
    /\ UNCHANGED outsideAuth

\* signInWithPassword returns an error (its message is not read), returns a
\* session (router.push('/dashboard')), or throws
SignInReturns(outcome) ==
    /\ loginPage.pc = "signIn"
    /\ loginPage' =
          [error |-> IF outcome = "error" THEN LoginMessages.WrongCredentials
                     ELSE IF outcome = "throws" THEN LoginMessages.Fallback
                     ELSE loginPage.error,
           loading |-> FALSE, pc |-> "idle"]
    /\ route' = IF outcome = "ok" THEN "/dashboard" ELSE route
    /\ UNCHANGED <<profileRows, registerPage>>
    /\ UNCHANGED outsideAuth

----------------------------------------------------------------------------
(* Specifications *)

Init ==
    /\ SettingsAtRest
    /\ InitOn("i1")
    /\ ParseIdle
    /\ AuthAtRest
    /\ TenantAtRest
    /\ MembersAtRest

\* one session at the screen, and the pipeline
Next ==
    \/ \E u \in {"u1"} : Mount(u, invoice[u].id)
    \/ \E u \in {"u1"} : StartEditing(u)
    \/ \E u \in {"u1"} : CancelEditing(u)
    \/ \E u \in {"u1"}, f \in InputFields : \E v \in InputsOf(f) : handleInputChange(u, f, v)
    \/ \E u \in {"u1"} : handleSaveStart(u)
    \/ \E u \in {"u1"} : handleVerifyStart(u)
    \/ \E u \in {"u1"} : handleSendToAccountantStart(u)
    \/ \E u \in {"u1"} : WriteSucceeds(u)
    \/ \E u \in {"u1"} : WriteFails(u)
    \/ \E i \in InvoiceIds : ExtractionCompletes(i)
    \/ \E i \in InvoiceIds : ExtractionFails(i)

Spec == Init /\ [][Next]_vars

\* two sessions on the page of the same processed invoice, no pipeline
InitShared ==
    /\ Init
    /\ invoices["i1"] = InitialRow("processed", FilledFields)

NextShared ==
    \/ \E u \in Users : Mount(u, invoice[u].id)
    \/ \E u \in Users : StartEditing(u)
    \/ \E u \in Users : CancelEditing(u)
    \/ \E u \in Users, f \in InputFields : \E v \in InputsOf(f) : handleInputChange(u, f, v)
    \/ \E u \in Users : handleSaveStart(u)
    \/ \E u \in Users : handleVerifyStart(u)
    \/ \E u \in Users : handleSendToAccountantStart(u)
    \/ \E u \in Users : WriteSucceeds(u)
    \/ \E u \in Users : WriteFails(u)

SpecShared == InitShared /\ [][NextShared]_vars

\* the screen of a pending invoice nobody touches
ScreenAtRest ==
    /\ InitOn("i1")
    /\ invoices["i1"] = InitialRow("pending", EmptyFields)

\* parseLineItems applied to each argument
InitParse ==
    /\ SettingsAtRest
    /\ ScreenAtRest
    /\ TenantAtRest
    /\ lineItems \in Arguments
    /\ parsed = Null
    /\ parsePc = "call"
    /\ MembersAtRest
    /\ AuthAtRest

NextParse == ParseCall

SpecParse == InitParse /\ [][NextParse]_vars

\* the organization context under overlapping refreshes, one switch at a time
\* and membership removals
InitTenant ==
    /\ SettingsAtRest
    /\ ScreenAtRest
    /\ ParseIdle
    /\ AuthAtRest
    /\ TenantInit
    /\ MembersAtRest

NextTenant ==
    \/ \E o \in OrgIds : MembershipRemoved(o)
    \/ \E r \in RefreshCalls : RefreshStart(r)
    \/ \E r \in RefreshCalls, outcome \in Outcomes : RefreshFetched(r, outcome)
    \/ \E r \in RefreshCalls, outcome \in Outcomes : RefreshProfileRead(r, outcome)
    \/ \E r \in RefreshCalls, outcome \in Outcomes : RefreshSaved(r, outcome)
    \/ \E o \in OrgIds \cup {"o9"} : SwitchStart("s1", o)
    \/ \E outcome \in Outcomes : SwitchSaved("s1", outcome)
    \/ SwitchReturned("s1")

SpecTenant == InitTenant /\ [][NextTenant]_vars

\* overlapping refreshes against rows nobody else changes
InitRefresh ==
    /\ SettingsAtRest
    /\ ScreenAtRest
    /\ ParseIdle
    /\ AuthAtRest
    /\ TenantInit
    /\ MembersAtRest

NextRefresh ==
    \/ \E r \in RefreshCalls : RefreshStart(r)
    \/ \E r \in RefreshCalls, outcome \in Outcomes : RefreshFetched(r, outcome)
    \/ \E r \in RefreshCalls, outcome \in Outcomes : RefreshProfileRead(r, outcome)
    \/ \E r \in RefreshCalls, outcome \in Outcomes : RefreshSaved(r, outcome)

SpecRefresh == InitRefresh /\ [][NextRefresh]_vars

\* the members page of one session that may switch between two organizations
InitMembers ==
    /\ SettingsAtRest
    /\ ScreenAtRest
    /\ ParseIdle
    /\ AuthAtRest
    /\ TenantInitWith({"o1", "o2"}, "o1")
    /\ MembersInit

NextMembers ==
    \/ \E l \in LoadCalls : LoadStart(l)
    \/ \E l \in LoadCalls, outcome \in {"ok", "error"} : LoadQueried(l, outcome)
    \/ \E l \in LoadCalls, outcome \in {"ok", "error"} : LoadFinished(l, outcome)
    \/ \E i \in 1..Len(AllMemberRows), confirmed \in BOOLEAN : handleRemoveMember(i, confirmed)
    \/ \E outcome \in {"ok", "error"}, l \in LoadCalls : DeleteReturns(outcome, l)
    \/ \E o \in {"o1", "o2"} : SwitchStart("s1", o)
    \/ \E outcome \in Outcomes : SwitchSaved("s1", outcome)
    \/ SwitchReturned("s1")

SpecMembers == InitMembers /\ [][NextMembers]_vars

\* the load effect applied to each organization
InitProfile ==
    /\ ScreenAtRest
    /\ ParseIdle
    /\ AuthAtRest
    /\ MembersAtRest
    /\ \E org \in ProfileOrganizations :
          orgRows = [OrganizationsAtRest EXCEPT !["o1"] = org]
    /\ SettingsMounted
    /\ TenantInitWith({"o1"}, "o1")

NextProfile == ProfileEffect

SpecProfile == InitProfile /\ [][NextProfile]_vars

\* the settings page of the owner of one organization, with one refresh at a
\* time
InitSettings ==
    /\ ScreenAtRest
    /\ ParseIdle
    /\ AuthAtRest
    /\ MembersAtRest
    /\ \E org \in SettingsOrganizations :
          orgRows = [OrganizationsAtRest EXCEPT !["o1"] = org]
    /\ SettingsMounted
    /\ TenantInitWith({"o1"}, "o1")

NextSettings ==
    \/ ProfileEffect
    \/ \E input \in SettingsInputs : SettingsInput(input[1], input[2])
    \/ handleSubmit
    \/ \E outcome \in {"ok", "error"}, r \in {"r1"} : SubmitReturns(outcome, r)
    \/ \E r \in {"r1"}, outcome \in Outcomes : RefreshFetched(r, outcome)
    \/ \E r \in {"r1"}, outcome \in Outcomes : RefreshProfileRead(r, outcome)
    \/ \E r \in {"r1"}, outcome \in Outcomes : RefreshSaved(r, outcome)

SpecSettings == InitSettings /\ [][NextSettings]_vars

\* the logo of the organization on the same page
NextLogo ==
    \/ ProfileEffect
    \/ \E file \in Files : handleLogoUpload(file)
    \/ \E confirmed \in BOOLEAN : handleRemoveLogo(confirmed)
    \/ \E outcome \in {"ok", "error"}, r \in {"r1"} : LogoReturns(outcome, r)
    \/ \E r \in {"r1"}, outcome \in Outcomes : RefreshFetched(r, outcome)
    \/ \E r \in {"r1"}, outcome \in Outcomes : RefreshProfileRead(r, outcome)
    \/ \E r \in {"r1"}, outcome \in Outcomes : RefreshSaved(r, outcome)

SpecLogo == InitSettings /\ [][NextLogo]_vars

\* the registration and the login page against an identity service that may
\* refuse, fail or throw
InitAuth ==
    /\ SettingsAtRest
    /\ ScreenAtRest
    /\ ParseIdle
    /\ TenantAtRest
    /\ MembersAtRest
    /\ AuthAtRest

NextAuth ==
    \/ \E page \in {"/register", "/login"} : OpenPage(page)
    \/ \E field \in {"password", "confirmPassword"}, value \in Passwords :
          RegisterInput(field, value)
    \/ handleRegister
    \/ \E outcome \in {"error", "user", "nouser", "throws"}, message \in BackendErrors,
           user \in NewUsers : SignUpReturns(outcome, message, user)
    \/ \E outcome \in {"ok", "error", "throws"} : UpsertReturns(outcome)
    \/ handleLogin
    \/ \E outcome \in {"ok", "error", "throws"} : SignInReturns(outcome)

SpecAuth == InitAuth /\ [][NextAuth]_vars

\* the invite dialog of the members page of an owner
InitInvite ==
    /\ SettingsAtRest
    /\ ScreenAtRest
    /\ ParseIdle
    /\ AuthAtRest
    /\ TenantInitWith({"o1", "o2"}, "o1")
    /\ MembersAtRest

NextInvite ==
    \/ \E show \in BOOLEAN : SetShowInviteModal(show)
    \/ \E field \in DOMAIN InviteTexts : \E value \in InviteTexts[field] :
          InviteInput(field, value)
    \/ handleInvite

SpecInvite == InitInvite /\ [][NextInvite]_vars

\* the members page under switches and refreshes of the organization
\* context; a call that was started runs on to its end, and the reload effect
\* runs when its dependency has changed
InitLoading ==
    /\ SettingsAtRest
    /\ ScreenAtRest
    /\ ParseIdle
    /\ AuthAtRest
    /\ TenantInitWith({"o1", "o2"}, "o1")
    /\ MembersAtRest

LoadRuns(l) ==
    \/ LoadStart(l)
    \/ \E outcome \in {"ok", "error"} : LoadQueried(l, outcome)
    \/ \E outcome \in {"ok", "error"} : LoadFinished(l, outcome)

RefreshRuns(r) ==
    \/ \E outcome \in Outcomes : RefreshFetched(r, outcome)
    \/ \E outcome \in Outcomes : RefreshProfileRead(r, outcome)
    \/ \E outcome \in Outcomes : RefreshSaved(r, outcome)

SwitchRuns(s) ==
    \/ \E outcome \in Outcomes : SwitchSaved(s, outcome)
    \/ SwitchReturned(s)

NextLoading ==
    \/ \E l \in LoadCalls : LoadRuns(l)
    \/ RefreshStart("r1")
    \/ RefreshRuns("r1")
    \/ \E o \in {"o1", "o2"} : SwitchStart("s1", o)
    \/ SwitchRuns("s1")

SpecLoading ==
    /\ InitLoading
    /\ [][NextLoading]_vars
    /\ \A l \in LoadCalls : WF_vars(LoadRuns(l))
    /\ WF_vars(RefreshRuns("r1"))
    /\ WF_vars(SwitchRuns("s1"))

\* overlapping switches and refreshes against a backend that answers every
\* membership query and every write of the selection, from a provider whose
\* organization is the persisted one
InitSelection ==
    /\ SettingsAtRest
    /\ ScreenAtRest
    /\ ParseIdle
    /\ AuthAtRest
    /\ \E saved \in OrgIds : TenantInitWith(OrgIds, saved)
    /\ MembersAtRest

NextSelection ==
    \/ \E r \in RefreshCalls : RefreshStart(r)
    \/ \E r \in RefreshCalls : RefreshFetched(r, "ok")
    \/ \E r \in RefreshCalls, outcome \in Outcomes : RefreshProfileRead(r, outcome)
    \/ \E r \in RefreshCalls : RefreshSaved(r, "ok")
    \/ \E s \in SwitchCalls, o \in OrgIds : SwitchStart(s, o)
    \/ \E s \in SwitchCalls : SwitchSaved(s, "ok")
    \/ \E s \in SwitchCalls : SwitchReturned(s)

SpecSelection == InitSelection /\ [][NextSelection]_vars

----------------------------------------------------------------------------
(* Properties of the invoice verification screen *)

\* a handler's awaited write returns in this step
Returns(u, kind) == request[u].kind = kind /\ request'[u].kind = "none"
ReturnsOk(u, kind) == Returns(u, kind) /\ lastAlert'[u] = ""
ReturnsError(u, kind) == Returns(u, kind) /\ lastAlert'[u] # ""

\* C1: the verify button is rendered only on a page whose status is exactly
\* 'processed', the send button only on one whose status is exactly
\* 'verified'; with any other status, and in edit mode, neither is rendered.
C1_ActionsOffered ==
    \A u \in Users :
        /\ VerifyOffered(u) <=> (invoice[u].row.status = "processed" /\ ~isEditing[u])
        /\ SendOffered(u) <=> (invoice[u].row.status = "verified" /\ ~isEditing[u])
        /\ request[u].kind = "verify" => invoice[u].row.status = "processed"
        /\ request[u].kind = "send" => invoice[u].row.status = "verified"

\* the send button is on screen after a verify went through
C1_Witness ==
    /\ SendOffered("u1")
    /\ completed["u1"] = "verify"

\* C2: the stored status becomes 'sent_to_accountant' only from 'verified'
\* and becomes 'verified' only from 'processed'.
C2_StatusSteps ==
    [][\A i \in InvoiceIds :
          /\ (invoices'[i].status = "sent_to_accountant"
                /\ invoices[i].status # "sent_to_accountant")
             => invoices[i].status = "verified"
          /\ (invoices'[i].status = "verified" /\ invoices[i].status # "verified")
             => invoices[i].status = "processed"]_vars

\* C3: a successful verify or sendToAccountant changes the status column of
\* the row with the request's id, and nothing else in the table.
C3_StatusWriteFrame ==
    [][\A u \in Users, kind \in {"verify", "send"} :
          ReturnsOk(u, kind) =>
             \A i \in InvoiceIds :
                invoices'[i] =
                   IF i = invoice[u].id
                   THEN [invoices[i] EXCEPT
                            !.status = IF kind = "verify" THEN "verified"
                                       ELSE "sent_to_accountant"]
                   ELSE invoices[i]]_vars

\* a verify went through on the opened invoice
C3_Witness ==
    /\ completed["u1"] = "verify"
    /\ invoices[invoice["u1"].id].status = "verified"

\* C4: a page whose stored status is none of the five states shows the
\* pending label and styling.
C4_UnknownStatusShownAsPending ==
    \A u \in Users :
        invoice[u].row.status \notin InvoiceStatus
            => statusInfo(u) = statusConfig["pending"]

\* C5: a save, successful or failed, leaves the stored status of every
\* invoice as it was, and the save is available whatever the status.
C5_SaveKeepsStatus ==
    [][\A u \in Users :
          /\ Returns(u, "save")
                => \A i \in InvoiceIds : invoices'[i].status = invoices[i].status
          /\ (isEditing[u] /\ ~isSaving[u] /\ writes < MaxWrites)
                => ENABLED handleSaveStart(u)]_vars

\* a save went through on an invoice that is no longer 'processed'
C5_Witness ==
    /\ completed["u1"] = "save"
    /\ invoices[invoice["u1"].id].status = "sent_to_accountant"

\* a form value that Number() reads as a numeral
ParsesAsNumber(v) ==
    \/ v.t = "num"
    \/ /\ v.t = "str"
       /\ \E i \in 1..Len(v.s) : v.s[i] # " "
       /\ \A i \in 1..Len(v.s) : v.s[i] \in Digits \cup {" "}
       /\ \A i, j, k \in 1..Len(v.s) :
             (i < j /\ j < k /\ v.s[i] # " " /\ v.s[k] # " ") => v.s[j] # " "

\* C6: a save is sent only when subtotal, tax_amount and total_amount of the
\* form all parse as numbers, and never carries a NaN.
C6_SaveRejectsNonNumeric ==
    [][\A u \in Users :
          (request[u].kind = "none" /\ request'[u].kind = "save")
             => \A f \in NumericFields :
                   /\ ParsesAsNumber(formData[u][f])
                   /\ request'[u].fields[f].t = "num"]_vars

\* C7: a successful save leaves edit mode; a failed write raises the
\* handler's alert and leaves the form, the edit mode and the table as they
\* were; every click sends one request and a failure sends none.
C7_WriteOutcome ==
    [][\A u \in Users :
          /\ ReturnsOk(u, "save") => ~isEditing'[u]
          /\ \A kind \in {"save", "verify", "send"} :
                ReturnsError(u, kind) =>
                   /\ lastAlert'[u] = AlertOf(kind)
                   /\ formData' = formData
                   /\ isEditing' = isEditing
                   /\ invoices' = invoices
                   /\ writes' = writes
                   /\ ~isSaving'[u]
          /\ (request[u].kind = "none" /\ request'[u].kind # "none")
                => writes' = writes + 1
          /\ request[u].kind # "none" => request'[u] \in {request[u], NoRequest}
          /\ writes' # writes
                => \E w \in Users : request[w].kind = "none" /\ request'[w].kind # "none"]_vars

\* a save failed while the form held an edit
C7_Witness ==
    /\ lastAlert["u1"] = "Greska pri spremanju"
    /\ isEditing["u1"]
    /\ edits = 1
    /\ request["u1"].kind = "none"

----------------------------------------------------------------------------
(* Properties of parseLineItems *)

\* the literal of a text, the numeral of a number
LiteralOf(text) == CHOOSE tok \in StringLiterals : LiteralText(tok) = text
NumeralOf(n) == CHOOSE tok \in Numerals : NumeralValue(tok) = n

RECURSIVE Stringify(_)
RECURSIVE StringifyList(_)

\* JSON.stringify(v), as tokens
Stringify(v) ==
    CASE v.t = "num" -> <<NumeralOf(v.n)>>
      [] v.t = "str" -> <<LiteralOf(v.s)>>
      [] v.t = "arr" -> <<"[">> \o StringifyList(v.items) \o <<"]">>
      [] v.t = "obj" -> <<"{">> \o StringifyList(v.items) \o <<"}">>
      [] v.t = "member" -> <<LiteralOf(v.s), ":">> \o Stringify(v.items[1])

StringifyList(items) ==
    IF items = <<>> THEN <<>>
    ELSE IF Len(items) = 1 THEN Stringify(items[1])
    ELSE Stringify(items[1]) \o <<",">> \o StringifyList(Tail(items))

RECURSIVE ValuesOfLength(_)
RECURSIVE ListsOfLength(_, _)

\* the JSON values over the alphabet whose text has n tokens
ValuesOfLength(n) ==
    IF n < 1 THEN {}
    ELSE IF n = 1 THEN {Num(10), Str(<<"A">>)}
    ELSE IF n = 2 THEN {Arr(<<>>), Obj(<<>>)}
    ELSE {Arr(e) : e \in ListsOfLength(n - 2, FALSE)}
            \cup {Obj(m) : m \in ListsOfLength(n - 2, TRUE)}

\* the comma-separated lists of values (of asMembers with distinct keys, for
\* an object) whose text has n tokens
ListsOfLength(n, asMembers) ==
    LET Entries(k) ==
            IF asMembers
            THEN {Member(<<"A">>, v) : v \in ValuesOfLength(k - 2)}
            ELSE ValuesOfLength(k)
    IN  IF n < 1 THEN {}
        ELSE {<<e>> : e \in Entries(n)}
                \cup UNION {{<<e>> \o rest :
                                e \in Entries(k),
                                rest \in IF asMembers THEN {}
                                         ELSE ListsOfLength(n - k - 1, asMembers)} :
                            k \in 1..(n - 2)}

\* every JSON value whose text is in Texts
JSONValues == UNION {ValuesOfLength(n) : n \in 1..MaxTextLen}

\* the line items of the scenario text
ScenarioItems ==
    Arr(<<Obj(<<Member(<<"d", "e", "s", "c", "r", "i", "p", "t", "i", "o", "n">>,
                       Str(<<"A">>)),
                Member(<<"a", "m", "o", "u", "n", "t">>, Num(10))>>)>>)

\* C8: parseLineItems returns a native array unchanged, the array a JSON
\* text of an array stands for, and the empty array for everything else: a
\* JSON text of a non-array, a text that is no JSON, null, undefined and any
\* other value.
C8_ParseLineItems ==
    parsePc = "returned" =>
        IF lineItems.t = "arr" THEN parsed = lineItems
        ELSE IF lineItems = Str(ScenarioText) THEN parsed = ScenarioItems
        ELSE IF lineItems.t = "str"
                  /\ \E v \in JSONValues : v.t = "arr" /\ Stringify(v) = lineItems.s
             THEN \A v \in JSONValues :
                     (v.t = "arr" /\ Stringify(v) = lineItems.s) => parsed = v
        ELSE parsed = Arr(<<>>)

\* the scenario text has been parsed to its one item
C8_Witness ==
    /\ parsePc = "returned"
    /\ lineItems = Str(ScenarioText)
    /\ Len(parsed.items) = 1
    /\ parsed.items[1].items[1] = Member(LiteralText("\"description\""), Str(<<"A">>))
    /\ parsed.items[1].items[2] = Member(LiteralText("\"amount\""), Num(10))

----------------------------------------------------------------------------
(* Properties of the organization context *)

\* C9: currentOrganization is null or an organization whose id is in the
\* organizations list, in every state, also between the steps of a refresh.
C9_CurrentInList ==
    \/ currentOrganization = NoOrganization
    \/ Found(organizations, currentOrganization.id)

\* C10: when a refresh with a non-empty fetched list has read the profile:
\* if the persisted selection is the id of an entry, that entry is current
\* and the call ends without a persistence write; otherwise the first entry
\* is current and a write of its id starts.  With an empty fetched list the
\* current organization is null.
C10_RefreshSelection ==
    [][\A r \in RefreshCalls :
          /\ (refresh[r].pc = "profile" /\ refresh'[r].pc # "profile") =>
                IF Found(refresh[r].orgs, profile)
                THEN /\ currentOrganization' = Find(refresh[r].orgs, profile)
                     /\ refresh'[r].pc = "idle"
                     /\ profile' = profile
                ELSE /\ currentOrganization' = refresh[r].orgs[1]
                     /\ refresh'[r].pc = "save"
                     /\ refresh'[r].orgId = refresh[r].orgs[1].id
          /\ (refresh[r].pc = "fetch" /\ refresh'[r].pc = "idle") =>
                currentOrganization' = NoOrganization]_vars

\* C11: switchOrganization with an id that is not in the organizations list
\* changes nothing: currentOrganization, organizations and the persisted
\* selection stay as they are and the call returns without starting a write.
C11_SwitchUnknownIsNoOp ==
    [][\A s \in SwitchCalls :
          (switch[s].pc = "idle" /\ switch'[s].pc # "idle"
              /\ ~Found(organizations, switch'[s].orgId)) =>
                /\ switch'[s].pc = "returned"
                /\ currentOrganization' = currentOrganization
                /\ organizations' = organizations
                /\ profile' = profile
                /\ memberships' = memberships]_vars

\* a call with an id outside the list of a provider that has a current
\* organization has returned
C11_Witness ==
    \E s \in SwitchCalls :
        /\ switch[s].pc = "returned"
        /\ ~Found(organizations, switch[s].orgId)
        /\ organizations # <<>>
        /\ currentOrganization # NoOrganization

\* C12: switchOrganization with an id of the list makes that entry the current
\* organization before the write of the selection, and whatever becomes of the
\* write (it goes through, no user is found, it fails) the call returns
\* normally and the current organization stays as it is.
C12_SwitchIsBestEffort ==
    [][\A s \in SwitchCalls :
          /\ (switch[s].pc = "idle" /\ switch'[s].pc # "idle"
                 /\ Found(organizations, switch'[s].orgId)) =>
                /\ currentOrganization' = Find(organizations, switch'[s].orgId)
                /\ switch'[s].pc = "save"
                /\ profile' = profile
          /\ (switch[s].pc = "save" /\ switch'[s] # switch[s]) =>
                /\ switch'[s].pc = "returned"
                /\ currentOrganization' = currentOrganization
                /\ profile' \in {profile, switch[s].orgId}]_vars

\* a switch has returned with the organization current and the persisted
\* selection still another one
C12_Witness ==
    \E s \in SwitchCalls :
        /\ switch[s].pc = "returned"
        /\ Found(organizations, switch[s].orgId)
        /\ currentOrganization.id = switch[s].orgId
        /\ profile # switch[s].orgId
        /\ \A r \in RefreshCalls : refresh[r].pc = "idle"
        /\ \A o \in SwitchCalls \ {s} : switch[o].pc = "idle"

\* C13: in every state role is the role of currentOrganization (null without
\* one), isOwner holds exactly for the role owner, canManageMembers equals
\* isOwner, and canManageProjects and canExportReports hold for every role.
C13_DerivedValues ==
    /\ currentOrganization = NoOrganization => role = ""
    /\ currentOrganization # NoOrganization =>
          /\ role = currentOrganization.role
          /\ role \in {"owner", "employee"}
          /\ \A i \in 1..Len(AllOrganizations) :
                AllOrganizations[i].id = currentOrganization.id =>
                    role = AllOrganizations[i].role
    /\ isOwner <=> role = "owner"
    /\ canManageMembers <=> isOwner
    /\ canManageProjects
    /\ canExportReports

\* the owner of the first organization has switched to one where they are an
\* employee and may no longer manage members
C13_Witness ==
    /\ \E s \in SwitchCalls : switch[s].pc = "returned" /\ switch[s].orgId = "o2"
    /\ Len(organizations) > 1
    /\ organizations[1].role = "owner"
    /\ currentOrganization.id = "o2"
    /\ role = "employee"
    /\ ~canManageMembers

\* C14: when the identity lookup of a refresh finds no user or the membership
\* fetch fails, the call ends with no organizations: the list is empty,
\* currentOrganization is null, isLoading is false, and the call is over
\* without an error.
C14_RefreshFailsClosed ==
    [][\A r \in RefreshCalls :
          (refresh[r].pc = "fetch" /\ refresh'[r] # refresh[r]) =>
              /\ organizations' \in {WithOrganization(memberships), <<>>}
              /\ organizations' = <<>> =>
                    /\ currentOrganization' = NoOrganization
                    /\ isLoading' = FALSE
                    /\ refresh'[r] = IdleCall
                    /\ profile' = profile]_vars

\* a refresh of a user with memberships has ended with no organizations
C14_Witness ==
    /\ memberships # <<>>
    /\ organizations = <<>>
    /\ currentOrganization = NoOrganization
    /\ isLoading = FALSE
    /\ \A r \in RefreshCalls : refresh[r].pc = "idle"
    /\ \A s \in SwitchCalls : switch[s].pc = "idle"

\* C15: whatever the interleaving of two overlapping refreshes against
\* unchanged memberships, once both are over the context is what one call
\* leaves behind: isLoading is false, and either the list is empty and
\* currentOrganization null, or the list is the fetched one and
\* currentOrganization the entry of the persisted selection or the first one.
C15_RefreshIdempotent ==
    (\A r \in RefreshCalls : refresh[r].pc = "idle") =>
        /\ isLoading = FALSE
        /\ organizations \in {WithOrganization(memberships), <<>>}
        /\ organizations = <<>> => currentOrganization = NoOrganization
        /\ organizations # <<>> =>
              currentOrganization \in
                  {LayoutOrganization(organizations, profile), organizations[1]}

----------------------------------------------------------------------------
(* Properties of the members page *)

\* C16: handleRemoveMember with a member whose role is owner shows the
\* rejection and does nothing else: no delete is started for an owner, the
\* stored rows are unchanged and no reload of the list begins.
C16_OwnerRemovalRejected ==
    [][/\ removal'.pc # "idle" => removal'.member.role # "owner"
       /\ (toast' = MemberToasts.OwnerRejected /\ toast # MemberToasts.OwnerRejected) =>
             /\ \E i \in 1..Len(members) : members[i].role = "owner"
             /\ memberRows' = memberRows
             /\ removal' = removal
             /\ loads' = loads
             /\ loading' = loading
             /\ members' = members]_vars

\* the removal of an owner shown in the list has been rejected
C16_Witness ==
    /\ toast = MemberToasts.OwnerRejected
    /\ removal = IdleRemoval
    /\ \E i \in 1..Len(members) : members[i].role = "owner" /\ members[i] \in memberRows
    /\ \A l \in LoadCalls : loads[l].pc = "idle"

\* C17: whatever removals are made on the members page, every organization
\* keeps an owner: no step takes the row of an owner out of the store.
C17_OwnerRetained ==
    [][/\ \A row \in memberRows \ memberRows' : row.role # "owner"
       /\ \A o \in {"o1", "o2"} :
             \E row \in memberRows' : row.org = o /\ row.role = "owner"]_vars

\* every employee of the first organization has been removed, its owners
\* are still there
C17_Witness ==
    /\ toast = MemberToasts.MemberRemoved
    /\ removal = IdleRemoval
    /\ \A row \in memberRows : row.org = "o1" => row.role = "owner"
    /\ \A row \in MemberRowSet : (row.org = "o1" /\ row.role = "owner") => row \in memberRows

----------------------------------------------------------------------------
(* Properties of the settings page *)

\* a text that is not empty
NonEmpty(v) == v.t = "str" /\ Len(v.s) > 0

\* C18: the form filled by the load effect shows, for pib, pdv_number, email
\* and phone, the first-class value when it is not empty and else the value
\* of the settings map ('' when both are absent); for the address the street
\* followed by ', city' and ' postal_code' for each part that is not empty,
\* and the address of the settings map only when the street is empty.
C18_LoadProfilePrecedence ==
    (effectSeen = currentOrganization /\ currentOrganization # NoOrganization) =>
        LET org == currentOrganization.data
            street == org.address
            fromSettings(k) == IF NonEmpty(org.settings[k]) THEN org.settings[k].s ELSE <<>>
        IN  /\ \A f \in {"pib", "pdv_number", "email", "phone"} :
                  settingsForm[f].t = "str"
                  /\ settingsForm[f].s = IF NonEmpty(org[f]) THEN org[f].s ELSE fromSettings(f)
            /\ settingsForm.address.t = "str"
            /\ settingsForm.address.s =
                  IF NonEmpty(street)
                  THEN street.s
                       \o (IF NonEmpty(org.city) THEN <<",", " ">> \o org.city.s ELSE <<>>)
                       \o (IF NonEmpty(org.postal_code) THEN <<" ">> \o org.postal_code.s
                           ELSE <<>>)
                  ELSE fromSettings("address")
            /\ (org.pib = Str(Text123) /\ org.settings["pib"] = Str(Text999)) =>
                  settingsForm.pib = Str(Text123)
            /\ (org.address = Null /\ org.settings["address"] = Str(MainSt)) =>
                  settingsForm.address = Str(MainSt)

\* the form of an organization with pib "123" and settings pib "999" shows "123"
C18_Witness ==
    /\ effectSeen = currentOrganization
    /\ currentOrganization # NoOrganization
    /\ currentOrganization.data.pib = Str(Text123)
    /\ currentOrganization.data.settings["pib"] = Str(Text999)
    /\ settingsForm.pib = Str(Text123)

\* C19: a successful save of the profile writes name and accountant_email as
\* columns and pib, pdv_number, address, email and phone into the settings
\* map; every other settings key keeps its stored value, and the tax and
\* contact columns, logo_url and the other organizations are unchanged.
C19_SaveProfileFrame ==
    [][(submit.pc = "update" /\ submit'.pc = "idle" /\ settingsToast' = SettingsToasts.SettingsSaved) =>
          LET before == orgRows[submit.id]
              after == orgRows'[submit.id]
              written == {"pib", "pdv_number", "address", "email", "phone"}
          IN  /\ after.name = submit.form.name
              /\ after.accountant_email = submit.form.accountant_email
              /\ \A k \in written : after.settings[k] = submit.form[k]
              /\ \A k \in SettingsKeys \ written : after.settings[k] = before.settings[k]
              /\ \A c \in {"pib", "pdv_number", "address", "city", "postal_code", "email",
                            "phone", "logo_url"} : after[c] = before[c]
              /\ \A o \in OrgIds \ {submit.id} : orgRows'[o] = orgRows[o]]_vars

\* a pib typed into the form has been saved into the settings map beside the
\* theme, and the pib column still holds "123"
C19_Witness ==
    /\ settingsToast = SettingsToasts.SettingsSaved
    /\ submit = IdleSubmit
    /\ orgRows["o1"].settings["pib"] = Str(<<"7">>)
    /\ orgRows["o1"].settings["theme"] = Str(<<"d">>)
    /\ orgRows["o1"].pib = Str(Text123)

\* a file the upload takes: one of the four image types, at most 2MB
Accepted(file) ==
    /\ file.type \in {"image/png", "image/jpeg", "image/jpg", "image/webp"}
    /\ file.size <= 2 * 1024 * 1024

\* C20: a picked file of another type or of more than 2MB is rejected with a
\* message and no request is made, a file of exactly 2MB is taken; an upload
\* or a removal of the logo that succeeds starts refreshOrganizations, one
\* that fails does not.
C20_LogoUpload ==
    [][/\ (fileInput' # fileInput /\ fileInput' # NoFile) =>
             IF Accepted(fileInput')
             THEN /\ logoCall'.pc = "upload"
                  /\ uploadingLogo'
             ELSE /\ settingsToast' =
                        IF fileInput'.type \in {"image/png", "image/jpeg", "image/jpg",
                                                "image/webp"}
                        THEN SettingsToasts.SizeRejected ELSE SettingsToasts.FormatRejected
                  /\ logoCall' = IdleLogo
                  /\ ~uploadingLogo'
                  /\ orgRows' = orgRows
                  /\ refresh' = refresh
       /\ (logoCall.pc # "idle" /\ logoCall'.pc = "idle") =>
             IF settingsToast' \in {SettingsToasts.LogoUploaded, SettingsToasts.LogoRemoved}
             THEN \E r \in RefreshCalls :
                      refresh[r].pc = "idle" /\ refresh'[r].pc = "fetch" /\ isLoading'
             ELSE /\ refresh' = refresh
                  /\ orgRows' = orgRows]_vars

\* a file of exactly 2MB is being uploaded
C20_Witness ==
    /\ logoCall.pc = "upload"
    /\ uploadingLogo
    /\ fileInput.type \in {"image/png", "image/jpeg", "image/jpg", "image/webp"}
    /\ fileInput.size = 2 * 1024 * 1024

----------------------------------------------------------------------------
(* Properties of the registration and the login page *)

\* C21: the error text of the login page and of the registration page is
\* always empty or one of the page's own fixed messages; the text of an error
\* of the identity service is never shown.
C21_AuthMessagesFixed ==
    /\ loginPage.error \in {"", LoginMessages.WrongCredentials, LoginMessages.Fallback}
    /\ registerPage.error \in
          {"", RegisterMessages.Mismatch, RegisterMessages.TooShort,
           RegisterMessages.AlreadyRegistered, RegisterMessages.Fallback}

\* a step of handleRegister from the form as typed
RegisterSubmits ==
    /\ route = "/register" /\ route' = route
    /\ registerPage.pc = "idle"
    /\ registerPage' # registerPage
    /\ registerPage'.password = registerPage.password
    /\ registerPage'.confirmPassword = registerPage.confirmPassword

\* a submit with differing or short passwords shows an error and stops; only
\* a valid form starts signUp
ValidationBeforeSignUp ==
    RegisterSubmits =>
        IF \/ registerPage.password # registerPage.confirmPassword
           \/ Len(registerPage.password) < 6
        THEN /\ registerPage'.pc = "idle"
             /\ registerPage'.error \in {RegisterMessages.Mismatch, RegisterMessages.TooShort}
             /\ registerPage'.loading = FALSE
             /\ profileRows' = profileRows
        ELSE registerPage'.pc = "signUp" /\ profileRows' = profileRows

\* whatever signUp answers, its return writes no row; without a user the
\* handler ends
NoRowWithoutUser ==
    (registerPage.pc = "signUp" /\ registerPage' # registerPage) =>
        /\ profileRows' = profileRows
        /\ route' = route
        /\ registerPage'.pc \in {"idle", "upsert"}

\* the page leaves for /onboarding only out of the upsert, with the row of
\* the new user written and no other row added
RowBeforeOnboarding ==
    (route' = "/onboarding" /\ route # "/onboarding") =>
        /\ registerPage.pc = "upsert"
        /\ registerPage.user \in profileRows'
        /\ profileRows' \ profileRows \subseteq {registerPage.user}

\* C24: handleRegister shows an error and issues neither signUp nor the
\* upsert when the passwords differ or the password has fewer than 6
\* characters; a signUp that returns an error or no user writes no profile
\* row; and when signUp returned a user, the profile row keyed by that user's
\* id is written, once, before the page leaves for /onboarding.
C24_RegistrationValidated ==
    [][ValidationBeforeSignUp /\ NoRowWithoutUser /\ RowBeforeOnboarding]_vars

----------------------------------------------------------------------------
(* Further properties of the invoice verification screen *)

\* C22: with two sessions on the same invoice, every save carries the whole
\* editable field set of its form (numeric fields as Number() reads them), and
\* a save that reaches the table succeeds whatever the row holds by then: the
\* row's editable fields become the values of that save, the fields its user
\* never changed included, and no session is alerted or has its form changed.
C22_LastSaveWins ==
    [][\A u \in Users :
          /\ (request[u].kind = "none" /\ request'[u].kind = "save") =>
                /\ request'[u].cols = EditableFields
                /\ request'[u].fields = SavePatch(formData[u])
          /\ ReturnsOk(u, "save") =>
                /\ \A f \in EditableFields :
                      invoices'[request[u].id].fields[f] = JSONValue(request[u].fields[f])
                /\ lastAlert' = lastAlert
                /\ formData' = formData
                /\ \A w \in Users \ {u} : invoice'[w] = invoice[w]]_vars

\* u1 changed the buyer's name and saved it; u2, whose page was rendered
\* before that, saved without touching the name: the stored name is the old
\* one again and nobody was alerted
C22_Witness ==
    /\ completed["u1"] = "save" /\ completed["u2"] = "save"
    /\ formData["u1"]["buyer_name"] = Str(<<"B">>)
    /\ invoice["u1"].row.fields["buyer_name"] = Str(<<"B">>)
    /\ formData["u2"]["buyer_name"] = Str(<<"A">>)
    /\ invoices["i1"].fields["buyer_name"] = Str(<<"A">>)
    /\ \A u \in Users : lastAlert[u] = "" /\ request[u].kind = "none"

\* C29: a save of a form that holds what the page shows for the stored row,
\* with nothing typed into it, leaves the invoices table as it was, also for
\* rows whose identity, date, notes or amount fields are null.
C29_SaveWithoutChanges ==
    [][\A u \in Users :
          (/\ ReturnsOk(u, "save")
           /\ request[u].fields = SavePatch(InitialFormData(invoices[request[u].id])))
              => invoices' = invoices]_vars

----------------------------------------------------------------------------
(* Further properties of the members page *)

C28_ListOfCurrentOrganization ==
    (/\ reloadSeen = currentOrganization.id
     /\ \A l \in LoadCalls : loads[l].pc = "idle")
        => \A i \in 1..Len(members) : members[i].org = currentOrganization.id

\* C23: once the reload effect has run for the current value of
\* currentOrganization (null included), and whenever a loadMembers call is
\* under way, the loading flag of the members page becomes false at some
\* later point; every refreshOrganizations call comes to its end, and the step
\* that ends it leaves isLoading false.
C23_LoadingEnds ==
    /\ (reloadSeen = currentOrganization.id) ~> ~loading
    /\ \A l \in LoadCalls : (loads[l].pc # "idle") ~> ~loading
    /\ \A r \in RefreshCalls : (refresh[r].pc # "idle") ~> (refresh[r].pc = "idle")
    /\ [][\A r \in RefreshCalls :
            (refresh[r].pc # "idle" /\ refresh'[r].pc = "idle") => ~isLoading']_vars

\* a submit of the invite dialog that went past the check of the email
InviteSubmitted ==
    /\ inviteModal.showInviteModal /\ ~inviteModal'.showInviteModal
    /\ TrimRight(TrimLeft(inviteModal.inviteEmail)) # <<>>
    /\ inviteModal'.inviteEmail = <<>>

\* C26: a submit of the invite dialog with a blank email changes nothing at
\* all; with any other email it raises the success toast, closes the dialog
\* and clears email, name and phone, while the membership rows, the displayed
\* list and the remote calls of the page stay as they are.
C26_InviteIsPlaceholder ==
    [][/\ (/\ inviteModal.showInviteModal
           /\ TrimRight(TrimLeft(inviteModal.inviteEmail)) = <<>>)
             => ~ENABLED (handleInvite /\ vars' # vars)
       /\ (/\ inviteModal.showInviteModal
           /\ TrimRight(TrimLeft(inviteModal.inviteEmail)) # <<>>)
             => ENABLED (handleInvite /\ InviteSubmitted)
       /\ InviteSubmitted =>
             /\ toast' = InviteAnnounced(inviteModal)
             /\ inviteModal' = [ClosedInvite EXCEPT !.inviteRole = inviteModal.inviteRole]
             /\ <<memberRows, members, loading, loads, removal>>' =
                   <<memberRows, members, loading, loads, removal>>
             /\ <<memberships, orgRows, profileRows>>' = <<memberships, orgRows, profileRows>>]_vars

\* an invitation of a named owner was announced and the dialog is closed,
\* with every membership row as it was
C26_Witness ==
    /\ toast = "Pozivnica za N ce biti poslana (funkcionalnost u izradi)"
    /\ inviteModal = [ClosedInvite EXCEPT !.inviteRole = "owner"]
    /\ memberRows = MemberRowSet

----------------------------------------------------------------------------
(* Further properties of the organization context *)

\* C27: when no switchOrganization and no refreshOrganizations call is under
\* way, the persisted selection is the id of currentOrganization.
C27_SelectionPersisted ==
    (/\ \A s \in SwitchCalls : switch[s].pc = "idle"
     /\ \A r \in RefreshCalls : refresh[r].pc = "idle")
        => profile = currentOrganization.id

----------------------------------------------------------------------------
(* Further properties of the settings page *)

\* the values the last successful handleSubmit sent for the organization, as
\* its update left them in the row: name and accountant_email in their
\* columns, the other five under their keys of the settings map
SubmittedProfile(row) ==
    [f \in FormFields |-> IF f \in ProfileKeys THEN row.settings[f] ELSE row[f]]

\* a profile save has succeeded, the refresh it started is over and has
\* handed the stored row to the context
SavedAndRefreshed ==
    /\ settingsToast = SettingsToasts.SettingsSaved
    /\ submit = IdleSubmit
    /\ \A r \in RefreshCalls : refresh[r].pc = "idle"
    /\ currentOrganization # NoOrganization
    /\ currentOrganization.data = orgRows[currentOrganization.id]

\* C30: after a successful save of the profile and the completed refresh,
\* loadProfile of the organization yields the submitted name, pib,
\* pdv_number, address, email, phone and accountant_email.
C30_ProfileRoundTrip ==
    SavedAndRefreshed =>
        loadProfile(currentOrganization.data) =
            SubmittedProfile(orgRows[currentOrganization.id])

====
